---- MODULE Spec2Model ----
(***************************************************************************)
(* audiofile: the offset/duration handling of audiofile.read().            *)
(*                                                                         *)
(* Time values.  A time in seconds is held as a whole number of ticks,     *)
(* TicksPerSample ticks making up one sample period of the file that is    *)
(* read (so x seconds at sampling rate sr is x * sr * TicksPerSample       *)
(* ticks).  A parsed time value is a record [k, t]: k is "none", "nan",    *)
(* "pinf", "ninf" or "fin", and t is the number of ticks of a "fin" value. *)
(* After the conversion to samples t counts samples.                       *)
(***************************************************************************)
EXTENDS Integers, Sequences, FiniteSets, TLC

\* ------------------------------------------------------------- bounds
\* longest ramp signal, in samples
MaxSamples == 4
\* resolution of a time in seconds: ticks per sample period
TicksPerSample == 2

\* largest magnitude of an offset or duration argument, in samples
MaxArg == MaxSamples + 2

\* ------------------------------------------------------------- values
None == [k |-> "none", t |-> 0]
NaN == [k |-> "nan", t |-> 0]
PInf == [k |-> "pinf", t |-> 0]
NInf == [k |-> "ninf", t |-> 0]
Fin(x) == [k |-> "fin", t |-> x]

IsNone(v) == v.k = "none"
isnan(v) == v.k = "nan"
isinf(v) == v.k \in {"pinf", "ninf"}
\* v < 0, v >= 0, v > 0, v == 0, v != 0 on floats (None is never compared)
Lt0(v) == v.k = "ninf" \/ (v.k = "fin" /\ v.t < 0)
Ge0(v) == v.k = "pinf" \/ (v.k = "fin" /\ v.t >= 0)
Gt0(v) == v.k = "pinf" \/ (v.k = "fin" /\ v.t > 0)
Eq0(v) == v.k = "fin" /\ v.t = 0
Ne0(v) == ~Eq0(v)

\* a + b, -a, min(a, b), max(a, b) on floats with infinities
\* (the code never adds infinities of opposite sign)
AddV(a, b) ==
    IF a.k = "fin" /\ b.k = "fin" THEN Fin(a.t + b.t)
    ELSE IF a.k = "fin" THEN b ELSE a
NegV(a) ==
    IF a.k = "pinf" THEN NInf
    ELSE IF a.k = "ninf" THEN PInf
    ELSE Fin(0 - a.t)
LeV(a, b) ==
    \/ a.k = "ninf"
    \/ b.k = "pinf"
    \/ (a.k = "fin" /\ b.k = "fin" /\ a.t <= b.t)
MinV(a, b) == IF LeV(a, b) THEN a ELSE b
MaxV(a, b) == IF LeV(a, b) THEN b ELSE a

\* ------------------------------------------------------------- arguments
\* The forms an offset or duration argument of read() takes:
\*   "None"                     Python None
\*   "strNone" "strNaN" "strNaT"  the strings "None", "NaN", "NaT"
\*   "nan" "NaT"                float NaN, pandas NaT
\*   "strInf" "strNegInf"       the strings "Inf", "-Inf"
\*   "inf" "neginf"             float +inf, -inf
\*   "strSamples"               a string without unit: n samples
\*   "seconds"                  a float or int: n ticks
AbsentForms == {"None", "strNone", "strNaN", "strNaT", "nan", "NaT"}
StrForms == {"strNone", "strNaN", "strNaT", "strInf", "strNegInf", "strSamples"}
Arg(f, n) == [form |-> f, n |-> n]
Args ==
    {Arg(f, 0) : f \in AbsentForms \cup {"strInf", "strNegInf", "inf", "neginf"}}
    \cup {Arg("strSamples", n) : n \in (0 - MaxArg)..MaxArg}
    \cup {Arg("seconds", n) :
            n \in (0 - MaxArg * TicksPerSample)..(MaxArg * TicksPerSample)}

isinstance_str(a) == a.form \in StrForms

\* ------------------------------------------------------------- files
Ramp(n) == [i \in 1..n |-> i]
\* the signal of test_read_duration_and_offset, in tenths, sampled at 2 Hz
TestSignal == <<0, 0, 1, 1, 2, 2>>
Signals == {Ramp(n) : n \in 0..MaxSamples} \cup {TestSignal}
\* a file: whether soundfile decodes it (its extension is in SNDFORMATS),
\* its samples (the same in every channel), its sampling rate in Hz and its
\* number of channels
Files == [native : BOOLEAN, signal : Signals, sampling_rate : {2},
          channels : {1, 2}]

VARIABLES
    file,           \* the audio file read() is called on
    pc,             \* position of the read() call
    arg_offset,     \* the offset argument as given
    arg_duration,   \* the duration argument as given
    always_2d,      \* the always_2d argument
    dtype,          \* the dtype argument
    sampling_rate,  \* local sampling_rate of read(); 0 is None
    offset,         \* local offset of read()
    duration,       \* local duration of read()
    signal,         \* the signal read() returns: the samples of a channel
    shape,          \* the shape of the array read() returns, <<>> if none
    signal_dtype,   \* the data type of the array read() returns, "none" if none
    calls,          \* the collaborators called since read() was entered
    error,          \* the exception read() raised, "none" if none
    conv_args,      \* <<offset, duration, rate>> handed to convert()
    prev,           \* arguments and result of the call before, or <<>>
    n_pc,           \* position of the normalizer harness
    n_in,           \* <<offset, duration, signal_duration>> given to it
    n_out,          \* the pair it returned
    n_again,        \* the pair returned for n_out
    fs,             \* the file system: what each path holds
    w_pc,           \* position of the caller of write() and convert_to_wav()
    w_call,         \* the call that is made, with its arguments
    w_result,       \* what the call returned or raised
    w_io,           \* the files the call has read and written
    w_fs0,          \* the file system when the call was made
    w_prev,         \* the call made before and its result, or <<>>
    world,          \* the installed binaries and the file that is probed
    i_pc,           \* position of the caller of the metadata functions
    i_call,         \* the function that is called, with its arguments
    i_result        \* what it returned or raised, and the tools it ran

vars == <<file, pc, arg_offset, arg_duration, always_2d, dtype, sampling_rate,
          offset, duration, signal, shape, signal_dtype, calls, error,
          conv_args, prev, n_pc, n_in,
          n_out, n_again, fs, w_pc, w_call, w_result, w_io, w_fs0, w_prev,
          world, i_pc, i_call, i_result>>
readVars == <<file, pc, arg_offset, arg_duration, always_2d, dtype,
              sampling_rate, offset, duration, signal, shape, signal_dtype,
              calls, error, conv_args, prev>>
normVars == <<n_pc, n_in, n_out, n_again>>
writeVars == <<fs, w_pc, w_call, w_result, w_io, w_fs0, w_prev>>
infoVars == <<world, i_pc, i_call, i_result>>

\* write(), convert_to_wav() and bit_depth() are not called
WriteOff ==
    /\ fs = <<>>
    /\ w_pc = "off"
    /\ w_call = <<>>
    /\ w_result = <<>>
    /\ w_io = {}
    /\ w_fs0 = <<>>
    /\ w_prev = <<>>
\* the metadata functions are not called
InfoOff ==
    /\ world = <<>>
    /\ i_pc = "off"
    /\ i_call = <<>>
    /\ i_result = <<>>

\* ------------------------------------------------------------- parsing
\* audiofile.core.utils.duration_in_seconds: a string without unit counts
\* samples and is divided by the sampling rate, a number is seconds, the
\* not-a-number tokens give NaN
duration_in_seconds(value, rate) ==
    CASE value.form = "strSamples" -> Fin(value.n * TicksPerSample)
      [] value.form = "seconds" -> Fin(value.n)
      [] value.form \in {"strInf", "inf"} -> PInf
      [] value.form \in {"strNegInf", "neginf"} -> NInf
      [] OTHER -> NaN

\* variant: a NaN is handed on instead of None
_parse_time_value_keeps_nan(value, rate) ==
    IF value.form = "None" THEN None
    ELSE duration_in_seconds(value, rate)

_parse_time_value(value, rate) ==
    IF value.form = "None" THEN None
    ELSE LET parsed == duration_in_seconds(value, rate)
         IN  IF isnan(parsed) THEN None ELSE parsed

\* value != 0 on an argument that is not None
ArgNe0(a) == ~(a.form = "seconds" /\ a.n = 0)

\* variant: only the duration is looked at
_needs_sampling_rate_duration_only(dur, off) ==
    dur.form # "None" \/ isinstance_str(dur)

_needs_sampling_rate(dur, off) ==
    IF dur.form # "None" \/ isinstance_str(dur) THEN TRUE
    ELSE IF off.form # "None" /\ isinstance_str(off) THEN TRUE
    ELSE IF off.form # "None" /\ ArgNe0(off) THEN TRUE
    ELSE FALSE

\* ------------------------------------------------------------- normalizer
\* offset, duration: parsed values; signal_duration: ticks, >= 0.
\* Each operator returns <<offset, duration>>.

\* offset=None, duration < 0
_normalize_none_neg(dur, signal_duration) ==
    <<MaxV(Fin(0), AddV(Fin(signal_duration), dur)), None>>

\* variant: the offset is not moved back by the duration
_normalize_pos_neg_unshifted(off, dur, signal_duration) ==
    IF isinf(off) /\ isinf(dur) THEN <<Fin(0), None>>
    ELSE IF isinf(off) THEN <<Fin(0), Fin(0)>>
    ELSE LET off1 == IF isinf(dur) THEN MinV(off, Fin(signal_duration))
                     ELSE off
             dur1 == IF isinf(dur) THEN NegV(Fin(signal_duration)) ELSE dur
         IN  <<off1, MinV(NegV(dur1), off1)>>

\* offset >= 0, duration < 0
_normalize_pos_neg(off, dur, signal_duration) ==
    IF isinf(off) /\ isinf(dur) THEN <<Fin(0), None>>
    ELSE IF isinf(off) THEN <<Fin(0), Fin(0)>>
    ELSE LET off1 == IF isinf(dur) THEN MinV(off, Fin(signal_duration))
                     ELSE off
             dur1 == IF isinf(dur) THEN NegV(Fin(signal_duration)) ELSE dur
         IN  <<MaxV(Fin(0), AddV(off1, dur1)), MinV(NegV(dur1), off1)>>

\* variant: an infinite offset is tested before the pair of infinities
_normalize_neg_pos_offset_first(off, dur, signal_duration) ==
    IF isinf(off) THEN <<Fin(0), Fin(0)>>
    ELSE IF isinf(dur)
    THEN <<MaxV(Fin(0), AddV(Fin(signal_duration), off)), None>>
    ELSE LET off1 == AddV(Fin(signal_duration), off)
         IN  IF Lt0(off1)
             THEN <<Fin(0), MaxV(Fin(0), AddV(dur, off1))>>
             ELSE <<off1, MinV(dur, AddV(Fin(signal_duration), NegV(off1)))>>

\* offset < 0, duration > 0
_normalize_neg_pos(off, dur, signal_duration) ==
    IF isinf(off) /\ isinf(dur) THEN <<Fin(0), None>>
    ELSE IF isinf(off) THEN <<Fin(0), Fin(0)>>
    ELSE IF isinf(dur)
    THEN <<MaxV(Fin(0), AddV(Fin(signal_duration), off)), None>>
    ELSE LET off1 == AddV(Fin(signal_duration), off)
         IN  IF Lt0(off1)
             THEN <<Fin(0), MaxV(Fin(0), AddV(dur, off1))>>
             ELSE <<off1, MinV(dur, AddV(Fin(signal_duration), NegV(off1)))>>

\* offset < 0, duration < 0
_normalize_neg_neg(off, dur, signal_duration) ==
    IF isinf(off) THEN <<Fin(0), Fin(0)>>
    ELSE IF isinf(dur) THEN <<off, NegV(Fin(signal_duration))>>
    ELSE <<MaxV(Fin(0), AddV(Fin(signal_duration), AddV(off, dur))),
           MaxV(Fin(0), MinV(NegV(dur), AddV(Fin(signal_duration), off)))>>

_normalize_offset_duration(off, dur, signal_duration) ==
    IF IsNone(off) /\ ~IsNone(dur) /\ Lt0(dur) THEN
        _normalize_none_neg(dur, signal_duration)
    \* offset=None, duration >= 0
    ELSE IF IsNone(off) /\ ~IsNone(dur) /\ Ge0(dur) THEN
        IF isinf(dur) THEN <<Fin(0), None>> ELSE <<Fin(0), dur>>
    \* both are None
    ELSE IF IsNone(off) THEN
        <<Fin(0), None>>
    ELSE IF Ge0(off) /\ ~IsNone(dur) /\ Lt0(dur) THEN
        _normalize_pos_neg(off, dur, signal_duration)
    \* offset >= 0, duration >= 0
    ELSE IF Ge0(off) /\ ~IsNone(dur) /\ Ge0(dur) THEN
        IF isinf(off) THEN <<Fin(0), Fin(0)>>
        ELSE IF isinf(dur) THEN <<off, None>>
        ELSE <<off, dur>>
    \* offset < 0, duration=None
    ELSE IF Lt0(off) /\ IsNone(dur) THEN
        <<MaxV(Fin(0), AddV(Fin(signal_duration), off)), None>>
    \* offset >= 0, duration=None
    ELSE IF Ge0(off) /\ IsNone(dur) THEN
        IF isinf(off) THEN <<Fin(0), Fin(0)>> ELSE <<off, None>>
    ELSE IF Lt0(off) /\ ~IsNone(dur) /\ Gt0(dur) THEN
        _normalize_neg_pos(off, dur, signal_duration)
    ELSE IF Lt0(off) /\ Lt0(dur) THEN
        _normalize_neg_neg(off, dur, signal_duration)
    \* fallback (offset < 0, duration == 0)
    ELSE <<IF Ge0(off) THEN off ELSE Fin(0), dur>>

\* ------------------------------------------------------------- collaborators
\* variant: exact halves go up
RoundHalfUp(t, q) == (2 * t + q) \div (2 * q)

\* round(t / q), exact halves going to the even integer (Python round)
RoundHalfEven(t, q) ==
    LET f == t \div q
        r == t % q
    IN  IF 2 * r < q THEN f
        ELSE IF 2 * r > q THEN f + 1
        ELSE IF f % 2 = 0 THEN f ELSE f + 1

\* variant: the product is truncated towards zero instead of rounded
samples_truncated(v, rate) ==
    Fin(IF v.t >= 0 THEN v.t \div TicksPerSample
        ELSE 0 - ((0 - v.t) \div TicksPerSample))

\* audmath.samples(duration, sampling_rate): round(duration * sampling_rate)
samples(v, rate) == Fin(RoundHalfEven(v.t, TicksPerSample))

\* slice(start, stop).indices(frames) of one bound
SliceIndex(i, frames) ==
    IF i < 0 THEN (IF i + frames < 0 THEN 0 ELSE i + frames)
    ELSE IF i > frames THEN frames ELSE i

\* soundfile.read(file, start=start, stop=stop): stop is None or a number
soundfile_read(sig, start, stop) ==
    LET frames == Len(sig)
        a == SliceIndex(start, frames)
        b0 == IF IsNone(stop) THEN frames ELSE SliceIndex(stop.t, frames)
        b == IF b0 < a THEN a ELSE b0
    IN  SubSeq(sig, a + 1, b)

\* info.sampling_rate(file), info.duration(file) of a readable file;
\* the duration is samples / sampling_rate seconds
get_sampling_rate(f) == f.sampling_rate
get_duration(f) == Len(f.signal) * TicksPerSample
\* info.channels(file) of a readable file
get_channels(f) == f.channels

\* The collaborators a metadata lookup calls.  A file soundfile handles is
\* probed with soundfile.info.  Otherwise the sampling rate and the channels
\* are asked from soxi or mediainfo, and the duration is
\* samples(file) / sampling_rate(file), where samples() converts the file
\* with convert_to_wav (a read() of the whole file, and a write()) and
\* probes the result.  Each lookup is logged by its name, followed by what
\* it calls.
\* variant: the lookup is made twice
get_sampling_rate_calls_twice(f) ==
    IF f.native
    THEN <<"get_sampling_rate", "soundfile.info",
           "get_sampling_rate", "soundfile.info">>
    ELSE <<"get_sampling_rate", "probe", "get_sampling_rate", "probe">>

get_sampling_rate_calls(f) ==
    IF f.native THEN <<"get_sampling_rate", "soundfile.info">>
    ELSE <<"get_sampling_rate", "probe">>
get_channels_calls(f) ==
    IF f.native THEN <<"get_channels", "soundfile.info">>
    ELSE <<"get_channels", "probe">>
get_duration_calls(f) ==
    IF f.native THEN <<"get_duration", "soundfile.info">>
    ELSE <<"get_duration", "samples", "convert_to_wav", "read">>
         \o get_sampling_rate_calls(f)
         \o <<"convert", "soundfile.read", "soundfile.write", "soundfile.info">>
         \o get_sampling_rate_calls(f)

\* A position in seconds as the transcoder turns it into samples of the
\* input: seconds * rate + 0.5, truncated
ToolSamples(t) == (2 * t + TicksPerSample) \div (2 * TicksPerSample)

\* run_sox / run_ffmpeg: trim the input to [offset, offset + duration)
\* seconds, to the end if no duration is given ("if duration:"), at the
\* given rate.  A negative position or length makes the tool fail.
TrimTool(sig, off, dur, rate) ==
    IF off < 0 \/ (~IsNone(dur) /\ dur.t < 0) THEN [ok |-> FALSE, out |-> <<>>]
    ELSE LET a == ToolSamples(off)
             b == IF IsNone(dur) \/ dur.t = 0 THEN Len(sig)
                  ELSE a + ToolSamples(dur.t)
         IN  [ok |-> TRUE,
              out |-> SubSeq(sig, a + 1, IF b > Len(sig) THEN Len(sig) ELSE b)]
run_sox(sig, off, dur, rate) == TrimTool(sig, off, dur, rate)
run_ffmpeg(sig, off, dur, rate) == TrimTool(sig, off, dur, rate)

\* convert(infile, outfile, offset, duration, sampling_rate): sox first,
\* ffmpeg if sox fails, the broken-file error if both fail
convert(sig, off, dur, rate) ==
    LET r == run_sox(sig, off, dur, rate)
    IN  IF r.ok THEN r ELSE run_ffmpeg(sig, off, dur, rate)

\* variant: the sample count is handed on without the division
to_seconds_undivided(n, rate) == n * rate * TicksPerSample

\* offset /= sampling_rate: samples back to seconds (ticks)
to_seconds(n, rate) == n * TicksPerSample

\* variant: a mono file always gives a one-dimensional array
_create_empty_signal_squeezed(f, a2d) ==
    LET channels == get_channels(f)
    IN  IF channels > 1 THEN <<channels, 0>> ELSE <<0>>

\* _create_empty_signal(file, always_2d): the shape of the array of zeros
_create_empty_signal(f, a2d) ==
    LET channels == get_channels(f)
    IN  IF channels > 1 \/ a2d THEN <<channels, 0>> ELSE <<0>>

\* the shape of the array soundfile.read(always_2d=...) returns for a file
\* of the given channels and frames, after the transposition to
\* (channels, samples)
soundfile_read_shape(channels, frames, a2d) ==
    IF channels > 1 \/ a2d THEN <<channels, frames>> ELSE <<frames>>

\* the data types a caller asks for
DTypes == {"float32", "float64"}
\* the data type of np.zeros(shape), which is given no dtype
zeros_dtype == "float64"
\* the data type of the array soundfile.read(dtype=dtype) returns
soundfile_read_dtype(dt) == dt

\* ------------------------------------------------------------- read()
Init ==
    /\ file \in Files
    /\ pc = "idle"
    /\ arg_offset = Arg("None", 0)
    /\ arg_duration = Arg("None", 0)
    /\ always_2d = FALSE
    /\ dtype = "float32"
    /\ sampling_rate = 0
    /\ offset = None
    /\ duration = None
    /\ signal = <<>>
    /\ shape = <<>>
    /\ signal_dtype = "none"
    /\ calls = <<>>
    /\ error = "none"
    /\ conv_args = <<>>
    /\ prev = <<>>
    /\ n_pc = "off"
    /\ n_in = <<>>
    /\ n_out = <<>>
    /\ n_again = <<>>
    /\ WriteOff
    /\ InfoOff

\* read(file, duration, offset): fetch the sampling rate if the arguments
\* need it and parse both arguments to seconds
read_parse(o, d, a2d, dt) ==
    /\ pc = "idle"
    /\ arg_offset' = o
    /\ arg_duration' = d
    /\ always_2d' = a2d
    /\ dtype' = dt
    /\ LET rate == IF _needs_sampling_rate(d, o)
                   THEN get_sampling_rate(file) ELSE 0
       IN  /\ sampling_rate' = rate
           /\ duration' = _parse_time_value(d, rate)
           /\ offset' = _parse_time_value(o, rate)
    /\ calls' = IF _needs_sampling_rate(d, o)
                THEN get_sampling_rate_calls(file) ELSE <<>>
    /\ pc' = "normalize"
    /\ UNCHANGED <<file, signal, shape, signal_dtype, error, conv_args>>
    /\ UNCHANGED <<prev, normVars, writeVars, infoVars>>

\* variant: infinite values are left to the decoder
needs_normalization_negative_only(off, dur) ==
    \/ (~IsNone(off) /\ Lt0(off))
    \/ (~IsNone(dur) /\ Lt0(dur))

\* variant: only the duration is looked at
needs_normalization_duration_only(off, dur) ==
    ~IsNone(dur) /\ (Lt0(dur) \/ isinf(dur))

needs_normalization(off, dur) ==
    \/ (~IsNone(off) /\ (Lt0(off) \/ isinf(off)))
    \/ (~IsNone(dur) /\ (Lt0(dur) \/ isinf(dur)))

\* negative and infinite values are resolved against the file's duration
read_normalize ==
    /\ pc = "normalize"
    /\ IF needs_normalization(offset, duration)
       THEN LET r == _normalize_offset_duration(offset, duration,
                                                get_duration(file))
            IN  /\ offset' = r[1]
                /\ duration' = r[2]
                /\ calls' = calls \o get_duration_calls(file)
       ELSE UNCHANGED <<offset, duration, calls>>
    /\ pc' = "to_samples"
    /\ UNCHANGED <<file, arg_offset, arg_duration, always_2d, dtype,
                   sampling_rate, signal, shape, signal_dtype, error,
                   conv_args>>
    /\ UNCHANGED <<prev, normVars, writeVars, infoVars>>

\* seconds to samples; a duration of 0 samples returns the empty signal
read_to_samples ==
    /\ pc = "to_samples"
    /\ LET dur1 == IF ~IsNone(duration) /\ Ne0(duration)
                   THEN samples(duration, sampling_rate) ELSE duration
       IN  /\ duration' = dur1
           /\ IF Eq0(dur1)
              THEN /\ shape' = _create_empty_signal(file, always_2d)
                   /\ signal_dtype' = zeros_dtype
                   /\ signal' = <<>>
                   /\ calls' = calls \o get_channels_calls(file)
                   /\ pc' = "done"
                   /\ UNCHANGED offset
              ELSE /\ offset' = IF ~IsNone(offset) /\ Ne0(offset)
                                THEN samples(offset, sampling_rate)
                                ELSE Fin(0)
                   /\ pc' = "decode"
                   /\ UNCHANGED <<signal, shape, signal_dtype, calls>>
    /\ UNCHANGED <<file, arg_offset, arg_duration, always_2d, dtype,
                   sampling_rate, error, conv_args>>
    /\ UNCHANGED <<prev, normVars, writeVars, infoVars>>

\* the native path: soundfile reads [start, stop) of the file
NativeRead(sig, off, dur) ==
    soundfile_read(sig, off.t,
                   IF ~IsNone(dur) THEN Fin(dur.t + off.t) ELSE None)

read_native ==
    /\ pc = "decode"
    /\ file.native
    /\ signal' = NativeRead(file.signal, offset, duration)
    /\ shape' = soundfile_read_shape(file.channels, Len(signal'), always_2d)
    /\ signal_dtype' = soundfile_read_dtype(dtype)
    /\ calls' = Append(calls, "soundfile.read")
    /\ sampling_rate' = file.sampling_rate
    /\ pc' = "done"
    /\ UNCHANGED <<file, arg_offset, arg_duration, always_2d, dtype, offset,
                   duration, error, conv_args>>
    /\ UNCHANGED <<prev, normVars, writeVars, infoVars>>

\* the other path: the file is converted to a temporary WAV file, offset
\* and duration given in seconds, and that file is read in full.  offset
\* and duration keep their sample counts here; the seconds handed to
\* convert() are recorded in conv_args.
read_transcode ==
    /\ pc = "decode"
    /\ ~file.native
    /\ LET off_s == IF offset.t # 0
                    THEN to_seconds(offset.t, sampling_rate) ELSE 0
           dur_s == IF ~IsNone(duration) /\ Ne0(duration)
                    THEN Fin(to_seconds(duration.t, sampling_rate))
                    ELSE duration
           rate == IF sampling_rate = 0
                   THEN get_sampling_rate(file) ELSE sampling_rate
           r == convert(file.signal, off_s, dur_s, rate)
       IN  /\ conv_args' = <<off_s, dur_s, rate>>
           /\ IF r.ok
              THEN /\ signal' = soundfile_read(r.out, 0, None)
                   /\ shape' = soundfile_read_shape(file.channels,
                                                    Len(signal'), always_2d)
                   /\ signal_dtype' = soundfile_read_dtype(dtype)
                   /\ calls' = calls
                        \o (IF sampling_rate = 0
                            THEN get_sampling_rate_calls(file) ELSE <<>>)
                        \o <<"convert", "soundfile.read">>
                   /\ sampling_rate' = rate
                   /\ error' = "none"
              ELSE /\ error' = "RuntimeError"
                   /\ calls' = calls
                        \o (IF sampling_rate = 0
                            THEN get_sampling_rate_calls(file) ELSE <<>>)
                        \o <<"convert">>
                   /\ UNCHANGED <<signal, shape, signal_dtype, sampling_rate>>
    /\ pc' = "done"
    /\ UNCHANGED <<file, arg_offset, arg_duration, always_2d, dtype, offset,
                   duration>>
    /\ UNCHANGED <<prev, normVars, writeVars, infoVars>>

Next ==
    \/ pc = "idle"
       /\ \E o \in Args, d \in Args, a2d \in BOOLEAN, dt \in DTypes :
                read_parse(o, d, a2d, dt)
    \/ read_normalize
    \/ read_to_samples
    \/ read_native
    \/ read_transcode

Spec == Init /\ [][Next]_vars

\* ------------------------------------------------------------- two calls
\* read() has returned: the caller keeps the arguments and the result
read_return ==
    /\ pc = "done"
    /\ prev = <<>>
    /\ prev' = [offset |-> arg_offset, duration |-> arg_duration,
                always_2d |-> always_2d, dtype |-> dtype, signal |-> signal,
                shape |-> shape, signal_dtype |-> signal_dtype,
                sampling_rate |-> sampling_rate, error |-> error]
    /\ pc' = "idle"
    /\ sampling_rate' = 0
    /\ offset' = None
    /\ duration' = None
    /\ signal' = <<>>
    /\ shape' = <<>>
    /\ signal_dtype' = "none"
    /\ calls' = <<>>
    /\ error' = "none"
    /\ conv_args' = <<>>
    /\ UNCHANGED <<file, arg_offset, arg_duration, always_2d, dtype>>
    /\ UNCHANGED <<normVars, writeVars, infoVars>>

\* b is a, or both are ways to say "not given"
SameUpToAbsence(a, b) == a = b \/ (a.form \in AbsentForms /\ b.form \in AbsentForms)

\* A first call in which offset or duration is not given, and a second one
\* on the same file that differs only in how "not given" is said; both
\* with the default dtype.
read_first(o, d, a2d) ==
    /\ prev = <<>>
    /\ o.form \in AbsentForms \/ d.form \in AbsentForms
    /\ read_parse(o, d, a2d, "float32")

read_second(o, d) ==
    /\ prev # <<>>
    /\ SameUpToAbsence(o, prev.offset)
    /\ SameUpToAbsence(d, prev.duration)
    /\ <<o, d>> # <<prev.offset, prev.duration>>
    /\ read_parse(o, d, prev.always_2d, prev.dtype)

NextAbsent ==
    \/ pc = "idle"
       /\ \E o \in Args, d \in Args, a2d \in BOOLEAN : read_first(o, d, a2d)
    \/ pc = "idle" /\ \E o \in Args, d \in Args : read_second(o, d)
    \/ read_normalize
    \/ read_to_samples
    \/ read_native
    \/ read_transcode
    \/ read_return

SpecAbsent == Init /\ [][NextAbsent]_vars

\* ------------------------------------------------------------- the normalizer alone
NormValues ==
    {None, PInf, NInf}
    \cup {Fin(t) : t \in (0 - MaxArg * TicksPerSample)..(MaxArg * TicksPerSample)}
SignalDurations == 0..(MaxSamples * TicksPerSample)

InitNorm ==
    /\ file = [native |-> TRUE, signal |-> <<>>, sampling_rate |-> 2,
               channels |-> 1]
    /\ pc = "off"
    /\ arg_offset = Arg("None", 0)
    /\ arg_duration = Arg("None", 0)
    /\ always_2d = FALSE
    /\ dtype = "float32"
    /\ sampling_rate = 0
    /\ offset = None
    /\ duration = None
    /\ signal = <<>>
    /\ shape = <<>>
    /\ signal_dtype = "none"
    /\ calls = <<>>
    /\ error = "none"
    /\ conv_args = <<>>
    /\ prev = <<>>
    /\ n_pc = "idle"
    /\ n_in = <<>>
    /\ n_out = <<>>
    /\ n_again = <<>>
    /\ WriteOff
    /\ InfoOff

\* _normalize_offset_duration(o, d, sd) is called
norm_call(o, d, sd) ==
    /\ n_pc = "idle"
    /\ n_in' = <<o, d, sd>>
    /\ n_out' = _normalize_offset_duration(o, d, sd)
    /\ n_pc' = "returned"
    /\ UNCHANGED n_again
    /\ UNCHANGED <<readVars, writeVars, infoVars>>

\* its result is given to it again, with the same signal duration
norm_again ==
    /\ n_pc = "returned"
    /\ n_again' = _normalize_offset_duration(n_out[1], n_out[2], n_in[3])
    /\ n_pc' = "again"
    /\ UNCHANGED <<n_in, n_out>>
    /\ UNCHANGED <<readVars, writeVars, infoVars>>

NextNorm ==
    \/ n_pc = "idle"
       /\ \E o \in NormValues, d \in NormValues, sd \in SignalDurations :
             norm_call(o, d, sd)
    \/ norm_again

SpecNorm == InitNorm /\ [][NextNorm]_vars

\* ------------------------------------------------------------- properties
IsAbsent(a) == a.form \in AbsentForms
\* the argument is a whole number of samples: a string without unit, or
\* seconds that are a multiple of the sample period
IsCount(a) ==
    \/ a.form = "strSamples"
    \/ (a.form = "seconds" /\ a.n % TicksPerSample = 0)
Count(a) == IF a.form = "strSamples" THEN a.n ELSE a.n \div TicksPerSample
\* the samples of sig lying in [lo, hi), positions counted from 0
Clip(sig, lo, hi) ==
    SubSeq(sig, (IF lo < 0 THEN 0 ELSE lo) + 1,
           IF hi > Len(sig) THEN Len(sig) ELSE hi)
Frames == Len(file.signal)

\* the requested interval [lo, hi) of C1, by the signs of offset o and
\* duration d (an absent offset with d >= 0 starts at 0)
RequestedLo(o, d, N) ==
    IF IsAbsent(o) THEN (IF Count(d) >= 0 THEN 0 ELSE N + Count(d))
    ELSE IF Count(o) >= 0
    THEN (IF Count(d) >= 0 THEN Count(o) ELSE Count(o) + Count(d))
    ELSE (IF Count(d) >= 0 THEN N + Count(o) ELSE N + Count(o) + Count(d))
RequestedHi(o, d, N) ==
    IF IsAbsent(o) THEN (IF Count(d) >= 0 THEN Count(d) ELSE N)
    ELSE IF Count(o) >= 0
    THEN (IF Count(d) >= 0 THEN Count(o) + Count(d) ELSE Count(o))
    ELSE (IF Count(d) >= 0 THEN N + Count(o) + Count(d) ELSE N + Count(o))

C2_NormalizedNonNegative ==
    n_pc = "returned"
    => /\ Ge0(n_out[1])
       /\ IsNone(n_out[2]) \/ Ge0(n_out[2])

\* C3: the sample range read resolves before decoding has no negative
\* value and, unless the duration is "to end", offset + duration does not
\* exceed the length of the signal.
C3_RangeInsideSignal ==
    pc = "decode"
    => /\ offset.t >= 0
       /\ IsNone(duration)
          \/ (duration.t >= 0 /\ offset.t + duration.t <= Frames)

IsSeconds(a) == a.form = "seconds"
Rounded(a) == RoundHalfEven(a.n, TicksPerSample)

\* C4 as stated: offset and duration in seconds, each within
\* [0, signal_duration], give exactly round(duration * sampling_rate)
\* samples.
C4_EachWithinSignal ==
    (/\ pc = "done"
     /\ IsSeconds(arg_offset) /\ IsSeconds(arg_duration)
     /\ 0 <= arg_offset.n /\ arg_offset.n <= get_duration(file)
     /\ 0 <= arg_duration.n /\ arg_duration.n <= get_duration(file))
    => Len(signal) = Rounded(arg_duration)

\* C4, amended: non-negative finite offset and duration in seconds with
\* round(offset * sr) + round(duration * sr) <= number of samples of the
\* file give exactly round(duration * sr) samples.
C4_RoundedRangeWithinSignal ==
    (/\ pc = "done"
     /\ IsSeconds(arg_offset) /\ IsSeconds(arg_duration)
     /\ 0 <= arg_offset.n /\ 0 <= arg_duration.n
     /\ Rounded(arg_offset) + Rounded(arg_duration) <= Frames)
    => /\ error = "none"
       /\ Len(signal) = Rounded(arg_duration)

\* a read whose duration is no whole number of samples and is rounded up
C4_Witness ==
    /\ pc = "done"
    /\ IsSeconds(arg_offset) /\ IsSeconds(arg_duration)
    /\ arg_offset.n > 0
    /\ arg_duration.n > 0 /\ arg_duration.n % TicksPerSample # 0
    /\ Rounded(arg_offset) + Rounded(arg_duration) <= Frames
    /\ Len(signal) * TicksPerSample > arg_duration.n

\* C5: for non-negative offset and duration in seconds the transcoder of
\* the non-native path is asked, at the file's rate, for the range the
\* native path selects, start = round(offset * sr) and
\* stop = start + round(duration * sr), and returns the same samples.
C5_TranscoderAskedForNativeRange ==
    (/\ pc = "done"
     /\ ~file.native
     /\ IsSeconds(arg_offset) /\ IsSeconds(arg_duration)
     /\ 0 <= arg_offset.n /\ 0 <= arg_duration.n)
    => /\ error = "none"
       /\ signal = NativeRead(file.signal, Fin(Rounded(arg_offset)),
                              Fin(Rounded(arg_duration)))
       /\ conv_args # <<>>
          => /\ ToolSamples(conv_args[1]) = Rounded(arg_offset)
             /\ ToolSamples(conv_args[2].t) = Rounded(arg_duration)
             /\ conv_args[3] = file.sampling_rate

\* the transcoder was run for an offset and a duration that both needed
\* rounding, and returned samples
C5_Witness ==
    /\ pc = "done"
    /\ ~file.native
    /\ conv_args # <<>>
    /\ IsSeconds(arg_offset) /\ arg_offset.n > 0
    /\ arg_offset.n % TicksPerSample # 0
    /\ IsSeconds(arg_duration) /\ arg_duration.n > 0
    /\ arg_duration.n % TicksPerSample # 0
    /\ Len(signal) > 0

\* C6: None, "None", "NaN", "NaT", float NaN and NaT all mean "not given":
\* a second read of the same file that differs from the first only in which
\* of them stands for an offset or a duration that is not given returns the
\* same signal and the same sampling rate.
C6_AbsenceSentinelsAgree ==
    (pc = "done" /\ prev # <<>>)
    => /\ signal = prev.signal
       /\ sampling_rate = prev.sampling_rate
       /\ error = prev.error

\* None and float NaN in the first call, "NaN" and NaT in the second
C6_Witness ==
    /\ pc = "done"
    /\ prev # <<>>
    /\ prev.offset.form = "None" /\ arg_offset.form = "strNaN"
    /\ prev.duration.form = "nan" /\ arg_duration.form = "NaT"
    /\ Len(signal) > 0

\* a float of n half seconds, for a file sampled at 2 Hz
HalfSeconds(n) == Arg("seconds", n * TicksPerSample)
IsTestFile == file.signal = TestSignal /\ file.sampling_rate = 2

\* C7 as stated: on the 3 s test signal at 2 Hz, read(offset=None,
\* duration=-0.5) returns [[0.2]] and read(offset=1.5, duration=-1.0)
\* returns [[0.1, 0.2]].
C7_AsStated ==
    (pc = "done" /\ IsTestFile)
    => /\ (arg_offset = Arg("None", 0) /\ arg_duration = HalfSeconds(-1))
          => signal = <<2>>
       /\ (arg_offset = HalfSeconds(3) /\ arg_duration = HalfSeconds(-2))
          => signal = <<1, 2>>

\* C7, amended: read(offset=None, duration=-0.5) returns [[0.2]] and
\* read(offset=1.5, duration=-1.0) returns [[0.0, 0.1]], the second
\* preceding the offset.
C7_NegativeDurationPrecedesOffset ==
    (pc = "done" /\ IsTestFile)
    => /\ (arg_offset = Arg("None", 0) /\ arg_duration = HalfSeconds(-1))
          => signal = <<2>>
       /\ (arg_offset = HalfSeconds(3) /\ arg_duration = HalfSeconds(-2))
          => signal = <<0, 1>>

C7_Witness ==
    /\ pc = "done"
    /\ IsTestFile
    /\ arg_offset = HalfSeconds(3)
    /\ arg_duration = HalfSeconds(-2)
    /\ file.native

IsPInf(a) == a.form \in {"strInf", "inf"}
IsNInf(a) == a.form \in {"strNegInf", "neginf"}
IsFinite(a) == a.form \in {"strSamples", "seconds"}

\* C8: with an infinite offset read returns the whole signal for
\* (+inf, -inf), (-inf, not given) and (-inf, +inf), and the empty signal
\* for +inf with a duration not given, +inf or finite, and for -inf with a
\* duration finite or -inf.
C8_InfiniteOffset ==
    pc = "done"
    => /\ (\/ IsPInf(arg_offset) /\ IsNInf(arg_duration)
           \/ IsNInf(arg_offset) /\ IsAbsent(arg_duration)
           \/ IsNInf(arg_offset) /\ IsPInf(arg_duration))
          => (error = "none" /\ signal = file.signal)
       /\ (\/ IsPInf(arg_offset) /\ IsAbsent(arg_duration)
           \/ IsPInf(arg_offset) /\ IsPInf(arg_duration)
           \/ IsPInf(arg_offset) /\ IsFinite(arg_duration)
           \/ IsNInf(arg_offset) /\ IsFinite(arg_duration)
           \/ IsNInf(arg_offset) /\ IsNInf(arg_duration))
          => (error = "none" /\ signal = <<>>)

\* offset -inf with duration +inf returned a whole, non-empty signal
C8_Witness ==
    /\ pc = "done"
    /\ IsNInf(arg_offset)
    /\ IsPInf(arg_duration)
    /\ signal = file.signal
    /\ Len(signal) > 0

\* the sample position of a finite offset, counted from the end of the
\* signal if the offset is negative
OffsetPosition(a) ==
    LET n == IF a.form = "strSamples" THEN a.n
             ELSE RoundHalfEven(a.n, TicksPerSample)
    IN  IF n >= 0 THEN n ELSE Frames + n

\* C9: for a finite offset of either sign and duration=-inf read returns
\* the samples from the start of the signal up to the position of the
\* offset, clamped to the signal (stated for the files soundfile decodes).
C9_MinusInfReadsFromStartToOffset ==
    (pc = "done" /\ file.native /\ IsFinite(arg_offset) /\ IsNInf(arg_duration))
    => /\ error = "none"
       /\ signal = Clip(file.signal, 0, OffsetPosition(arg_offset))

\* C10: _normalize_offset_duration is idempotent: given the pair it
\* returned and the same signal duration, it returns that pair.
C10_NormalizerIdempotent ==
    n_pc = "again" => n_again = n_out

\* the sample decoders: the native one and the external transcoder
Decoders == {"soundfile.read", "convert"}
NoDecoderCalled == \A i \in 1..Len(calls) : calls[i] \notin Decoders
\* read() has returned through the short-circuit for a duration of 0 samples
ReturnedZeroDuration == pc = "done" /\ error = "none" /\ Eq0(duration)
\* the shape (channels, 0), or (0,) for a mono file when always_2d is false
EmptyShape ==
    IF file.channels = 1 /\ ~always_2d THEN <<0>> ELSE <<file.channels, 0>>
\* the argument is negative or infinite
IsNegOrInf(a) == IsPInf(a) \/ IsNInf(a) \/ (IsFinite(a) /\ a.n < 0)

\* C11 as stated: whenever the resolved duration is 0 samples, read returns
\* an empty signal of shape (channels, 0), or (0,) for a mono file when
\* always_2d is false, with the file's sampling rate, and no decoder
\* (native sample decoder, external transcoder) is invoked during the call.
C11_NoDecoderDuringCall ==
    ReturnedZeroDuration
    => /\ signal = <<>>
       /\ shape = EmptyShape
       /\ sampling_rate = file.sampling_rate
       /\ NoDecoderCalled

\* C11, amended: whenever the resolved duration is 0 samples, read returns
\* the empty signal of that shape with the file's sampling rate, and no
\* decoder is invoked during the call if the file is natively decodable or
\* neither offset nor duration is negative or infinite (otherwise the
\* duration lookup of the normalization transcodes the file).
C11_ZeroDurationShortCircuit ==
    ReturnedZeroDuration
    => /\ signal = <<>>
       /\ shape = EmptyShape
       /\ sampling_rate = file.sampling_rate
       /\ (file.native \/ ~(IsNegOrInf(arg_offset) \/ IsNegOrInf(arg_duration)))
          => NoDecoderCalled

\* a duration that is 0 only after rounding, on a mono file that is not
\* natively decodable, with always_2d
C11_Witness ==
    /\ ReturnedZeroDuration
    /\ ~file.native
    /\ file.channels = 1 /\ always_2d
    /\ IsSeconds(arg_duration) /\ arg_duration.n > 0
    /\ shape = <<1, 0>>
    /\ NoDecoderCalled

\* ------------------------------------------------------------- write(), bit_depth(), convert_to_wav()
\* read() and the normalizer harness are not called
ReadOff ==
    /\ file = [native |-> TRUE, signal |-> <<>>, sampling_rate |-> 2,
               channels |-> 1]
    /\ pc = "off"
    /\ arg_offset = Arg("None", 0)
    /\ arg_duration = Arg("None", 0)
    /\ always_2d = FALSE
    /\ dtype = "float32"
    /\ sampling_rate = 0
    /\ offset = None
    /\ duration = None
    /\ signal = <<>>
    /\ shape = <<>>
    /\ signal_dtype = "none"
    /\ calls = <<>>
    /\ error = "none"
    /\ conv_args = <<>>
    /\ prev = <<>>
NormOff ==
    /\ n_pc = "off"
    /\ n_in = <<>>
    /\ n_out = <<>>
    /\ n_again = <<>>

\* utils.MAX_CHANNELS and utils.SNDFORMATS
MAX_CHANNELS == [wav |-> 65535, ogg |-> 255, mp3 |-> 2, flac |-> 8]
SNDFORMATS == {"wav", "flac", "mp3", "ogg"}

\* A path: relative or absolute, with its extension as written (one file
\* name, "signal", in one directory).
Exts == {"wav", "WAV", "flac", "ogg", "mp3", "mp4"}
Paths == [abs : BOOLEAN, ext : Exts]
\* outfile=None
NoOutfile == [abs |-> FALSE, ext |-> "none"]
\* audeer.safe_path: the absolute path
safe_path(p) == [p EXCEPT !.abs = TRUE]
\* audeer.replace_file_extension
replace_file_extension(p, ext) == [p EXCEPT !.ext = ext]
\* utils.file_extension: the extension in lower case
file_extension(p) == IF p.ext = "WAV" THEN "wav" ELSE p.ext

\* What a path holds: nothing, or an audio file of a format, a subtype, a
\* number of channels and a number of frames.
NoFile == [format |-> "none", subtype |-> "none", channels |-> 0, frames |-> 0]
AudioFile(format, subtype, channels, frames) ==
    [format |-> format, subtype |-> subtype, channels |-> channels,
     frames |-> frames]

\* the depth_mapping tables of write()
wav_depth_mapping ==
    (8 :> "PCM_U8") @@ (16 :> "PCM_16") @@ (24 :> "PCM_24") @@ (32 :> "PCM_32")
flac_depth_mapping ==
    (8 :> "PCM_S8") @@ (16 :> "PCM_16") @@ (24 :> "PCM_24")

\* variant: the table of WAV is used for FLAC too
depth_mapping_of_wav(file_type) == wav_depth_mapping

depth_mapping(file_type) ==
    IF file_type = "wav" THEN wav_depth_mapping ELSE flac_depth_mapping

\* the subtype soundfile.write chooses for subtype=None
default_subtype(file_type) ==
    IF file_type = "ogg" THEN "VORBIS" ELSE "MPEG_LAYER_III"

\* an exception: its type, what it is about and the values its message names
Err(type, about, names) == [type |-> type, about |-> about, names |-> names]
NoError == Err("none", "none", {})

\* variant: the size of the first dimension, whatever the dimensions
signal_channels_first_dim(sig_shape) == sig_shape[1]

\* the number of channels of a signal of shape (channels, samples) or
\* (samples,)
signal_channels(sig_shape) == IF Len(sig_shape) > 1 THEN sig_shape[1] ELSE 1

\* variant: the target file is opened for writing before the checks
write_opens_first(files, target, sig_shape, bit_depth) ==
    LET path == safe_path(target)
        file_type == file_extension(path)
        checked == file_type \in {"wav", "flac"}
        channels == signal_channels(sig_shape)
        opened == [files EXCEPT ![path] = AudioFile(file_type, "none", 0, 0)]
    IN  IF checked /\ bit_depth \notin DOMAIN depth_mapping(file_type)
        THEN [error |-> Err("RuntimeError", "bit_depth",
                            DOMAIN depth_mapping(file_type)),
              fs |-> opened, io |-> {<<"write", path>>}]
        ELSE IF file_type \notin DOMAIN MAX_CHANNELS
        THEN [error |-> Err("KeyError", file_type, {}),
              fs |-> opened, io |-> {<<"write", path>>}]
        ELSE IF channels > MAX_CHANNELS[file_type]
        THEN [error |-> Err("RuntimeError", "channels",
                            {MAX_CHANNELS[file_type]}),
              fs |-> opened, io |-> {<<"write", path>>}]
        ELSE [error |-> NoError,
              fs |-> [files EXCEPT ![path] =
                        AudioFile(file_type,
                                  IF checked
                                  THEN depth_mapping(file_type)[bit_depth]
                                  ELSE default_subtype(file_type),
                                  channels, sig_shape[Len(sig_shape)])],
              io |-> {<<"write", path>>}]

\* write(file, signal, sampling_rate, bit_depth): the bit depth is checked
\* for WAV and FLAC, then the number of channels, then soundfile writes the
\* file.  Returns the exception, the file system and the files touched.
write(files, target, sig_shape, bit_depth) ==
    LET path == safe_path(target)
        file_type == file_extension(path)
        checked == file_type \in {"wav", "flac"}
        channels == signal_channels(sig_shape)
    IN  IF checked /\ bit_depth \notin DOMAIN depth_mapping(file_type)
        THEN [error |-> Err("RuntimeError", "bit_depth",
                            DOMAIN depth_mapping(file_type)),
              fs |-> files, io |-> {}]
        ELSE IF file_type \notin DOMAIN MAX_CHANNELS
        THEN [error |-> Err("KeyError", file_type, {}),
              fs |-> files, io |-> {}]
        ELSE IF channels > MAX_CHANNELS[file_type]
        THEN [error |-> Err("RuntimeError", "channels",
                            {MAX_CHANNELS[file_type]}),
              fs |-> files, io |-> {}]
        ELSE [error |-> NoError,
              fs |-> [files EXCEPT ![path] =
                        AudioFile(file_type,
                                  IF checked
                                  THEN depth_mapping(file_type)[bit_depth]
                                  ELSE default_subtype(file_type),
                                  channels, sig_shape[Len(sig_shape)])],
              io |-> {<<"write", path>>}]

\* the precision tables of bit_depth()
wav_precision_mapping ==
    [PCM_16 |-> 16, PCM_24 |-> 24, PCM_32 |-> 32, PCM_U8 |-> 8, FLOAT |-> 32,
     DOUBLE |-> 64, ULAW |-> 8, ALAW |-> 8, IMA_ADPCM |-> 4, MS_ADPCM |-> 4,
     GSM610 |-> 16, G721_32 |-> 4]
flac_precision_mapping ==
    [PCM_16 |-> 16, PCM_24 |-> 24, PCM_32 |-> 32, PCM_S8 |-> 8]

\* variant: the table of FLAC is used for WAV too
precision_mapping_of_flac(file_type) == flac_precision_mapping

precision_mapping(file_type) ==
    IF file_type = "wav" THEN wav_precision_mapping
    ELSE flac_precision_mapping

\* bit_depth(file): for WAV and FLAC the subtype soundfile.info reports is
\* looked up in the table of the format; None (0 here) for the others.
bit_depth(files, target) ==
    LET path == safe_path(target)
        file_type == file_extension(path)
    IN  IF file_type \in {"wav", "flac"}
        THEN IF files[path] = NoFile
             THEN [error |-> Err("RuntimeError", "opening", {}), value |-> 0,
                   io |-> {<<"read", path>>}]
             ELSE IF files[path].subtype
                        \in DOMAIN precision_mapping(file_type)
             THEN [error |-> NoError,
                   value |-> precision_mapping(file_type)[files[path].subtype],
                   io |-> {<<"read", path>>}]
             ELSE [error |-> Err("KeyError", files[path].subtype, {}),
                   value |-> 0, io |-> {<<"read", path>>}]
        ELSE [error |-> NoError, value |-> 0, io |-> {}]

\* read(infile) of a whole file, always_2d=False: the shape of the signal
read_whole(files, path) ==
    IF files[path] = NoFile
    THEN [error |-> Err("RuntimeError", "opening", {}), shape |-> <<>>]
    ELSE [error |-> NoError,
          shape |-> IF files[path].channels > 1
                    THEN <<files[path].channels, files[path].frames>>
                    ELSE <<files[path].frames>>]

\* variant: the paths are not compared
convert_to_wav_unguarded(files, infile, outfile, depth, overwrite) ==
    LET inpath == safe_path(infile)
        outpath == IF outfile = NoOutfile
                   THEN replace_file_extension(inpath, "wav")
                   ELSE safe_path(outfile)
        r == read_whole(files, inpath)
        w == write(files, outpath, r.shape, depth)
    IN  IF r.error # NoError
        THEN [error |-> r.error, value |-> NoOutfile, fs |-> files,
              io |-> {<<"read", inpath>>}]
        ELSE [error |-> w.error,
              value |-> IF w.error = NoError THEN outpath ELSE NoOutfile,
              fs |-> w.fs, io |-> {<<"read", inpath>>} \cup w.io]

\* convert_to_wav(infile, outfile, bit_depth=depth, overwrite=)
convert_to_wav(files, infile, outfile, depth, overwrite) ==
    LET inpath == safe_path(infile)
        outpath == IF outfile = NoOutfile
                   THEN replace_file_extension(inpath, "wav")
                   ELSE safe_path(outfile)
        r == read_whole(files, inpath)
        w == write(files, outpath, r.shape, depth)
    IN  IF inpath = outpath /\ ~overwrite
        THEN [error |-> Err("RuntimeError", "overwritten", {}),
              value |-> NoOutfile, fs |-> files, io |-> {}]
        ELSE IF r.error # NoError
        THEN [error |-> r.error, value |-> NoOutfile, fs |-> files,
              io |-> {<<"read", inpath>>}]
        ELSE [error |-> w.error,
              value |-> IF w.error = NoError THEN outpath ELSE NoOutfile,
              fs |-> w.fs, io |-> {<<"read", inpath>>} \cup w.io]

\* the channel counts tried: one, two, and each format's limit and the
\* count above it
ChannelCounts ==
    {1, 2} \cup UNION {{MAX_CHANNELS[f], MAX_CHANNELS[f] + 1} :
                        f \in DOMAIN MAX_CHANNELS}
\* signals of three samples: one-dimensional, or (channels, samples)
SignalShapes == {<<3>>} \cup {<<c, 3>> : c \in ChannelCounts}
\* the bit_depth arguments tried
BitDepths == {1, 8, 16, 24, 32}

\* the subtypes soundfile.info reports for the files of a format
ProbedSubtypes(format) ==
    CASE format = "wav" -> DOMAIN wav_precision_mapping \cup {"NMS_ADPCM_16"}
      [] format = "flac" -> {"PCM_S8", "PCM_16", "PCM_24"}
      [] format = "ogg" -> {"VORBIS", "OPUS"}
      [] format = "mp3" -> {"MPEG_LAYER_III"}
      [] OTHER -> {"none"}
ResolvedPaths == {p \in Paths : p.abs}
EmptyFileSystem == [p \in ResolvedPaths |-> NoFile]
\* no file, or one file that was there before
InitialFileSystems ==
    {EmptyFileSystem}
    \cup UNION {{[EmptyFileSystem EXCEPT ![p] =
                     AudioFile(file_extension(p), st, c, 3)] :
                   st \in ProbedSubtypes(file_extension(p)), c \in {1, 2}} :
                 p \in ResolvedPaths}

InitWrite ==
    /\ ReadOff
    /\ NormOff
    /\ InfoOff
    /\ fs \in InitialFileSystems
    /\ w_pc = "idle"
    /\ w_call = <<>>
    /\ w_result = <<>>
    /\ w_io = {}
    /\ w_fs0 = fs
    /\ w_prev = <<>>

Call(op, target, outfile, sig_shape, depth, overwrite) ==
    [op |-> op, file |-> target, outfile |-> outfile, shape |-> sig_shape,
     bit_depth |-> depth, overwrite |-> overwrite]

\* write(target, signal, sampling_rate, bit_depth=depth) is called
w_write(target, sig_shape, depth) ==
    /\ w_pc = "idle"
    /\ LET r == write(fs, target, sig_shape, depth)
       IN  /\ fs' = r.fs
           /\ w_io' = r.io
           /\ w_result' = [error |-> r.error, value |-> NoOutfile]
    /\ w_call' = Call("write", target, NoOutfile, sig_shape, depth, FALSE)
    /\ w_fs0' = fs
    /\ w_pc' = "done"
    /\ UNCHANGED w_prev
    /\ UNCHANGED <<readVars, normVars, infoVars>>

\* convert_to_wav(infile, outfile, bit_depth=depth, overwrite=overwrite) is
\* called
w_convert_to_wav(infile, outfile, depth, overwrite) ==
    /\ w_pc = "idle"
    /\ LET r == convert_to_wav(fs, infile, outfile, depth, overwrite)
       IN  /\ fs' = r.fs
           /\ w_io' = r.io
           /\ w_result' = [error |-> r.error, value |-> r.value]
    /\ w_call' = Call("convert_to_wav", infile, outfile, <<>>, depth, overwrite)
    /\ w_fs0' = fs
    /\ w_pc' = "done"
    /\ UNCHANGED w_prev
    /\ UNCHANGED <<readVars, normVars, infoVars>>

\* the call has returned or raised: the caller keeps it and its result
w_return ==
    /\ w_pc = "done"
    /\ w_prev' = [call |-> w_call, result |-> w_result]
    /\ w_pc' = "returned"
    /\ UNCHANGED <<fs, w_call, w_result, w_io, w_fs0>>
    /\ UNCHANGED <<readVars, normVars, infoVars>>

\* bit_depth(target) is called, on the files that were there or after a
\* write() or convert_to_wav()
w_bit_depth(target) ==
    /\ w_pc \in {"idle", "returned"}
    /\ LET r == bit_depth(fs, target)
       IN  /\ w_io' = r.io
           /\ w_result' = [error |-> r.error, value |-> r.value]
    /\ w_call' = Call("bit_depth", target, NoOutfile, <<>>, 0, FALSE)
    /\ w_fs0' = fs
    /\ w_pc' = "probed"
    /\ UNCHANGED <<fs, w_prev>>
    /\ UNCHANGED <<readVars, normVars, infoVars>>

NextWrite ==
    \/ w_pc = "idle"
       /\ \E target \in Paths, sig_shape \in SignalShapes, depth \in BitDepths :
             w_write(target, sig_shape, depth)
    \/ w_pc = "idle"
       /\ \E infile \in Paths, outfile \in Paths \cup {NoOutfile},
             depth \in BitDepths, overwrite \in BOOLEAN :
             w_convert_to_wav(infile, outfile, depth, overwrite)
    \/ w_return
    \/ \E target \in Paths : w_bit_depth(target)

SpecWrite == InitWrite /\ [][NextWrite]_vars

\* ------------------------------------------------------------- properties of write()
\* write() has returned or raised
WriteDone == w_pc = "done" /\ w_call.op = "write"
\* the target format, inferred from the file extension
TargetFormat == file_extension(w_call.file)
\* the channel count of the signal: the size of the first dimension, 1 for
\* a one-dimensional signal
ChannelCount == IF Len(w_call.shape) = 1 THEN 1 ELSE w_call.shape[1]
\* the limits and the bit depths the claims state
ChannelLimit == [wav |-> 65535, ogg |-> 255, mp3 |-> 2, flac |-> 8]
AllowedBitDepths == [wav |-> {8, 16, 24, 32}, flac |-> {8, 16, 24}]
RaisedChannelLimit ==
    /\ w_result.error.type = "RuntimeError"
    /\ w_result.error.about = "channels"
    /\ w_result.error.names = {ChannelLimit[TargetFormat]}
RaisedBitDepth ==
    /\ w_result.error.type = "RuntimeError"
    /\ w_result.error.about = "bit_depth"
    /\ w_result.error.names = AllowedBitDepths[TargetFormat]
\* the bit depth is one write() accepts for the target format
BitDepthAccepted ==
    TargetFormat \in DOMAIN AllowedBitDepths
    => w_call.bit_depth \in AllowedBitDepths[TargetFormat]

\* C12 as stated: write raises a RuntimeError naming the format's maximum
\* exactly when the channel count of the signal exceeds the limit of the
\* target format (65535 wav, 255 ogg, 2 mp3, 8 flac).
C12_ChannelLimitExactly ==
    (WriteDone /\ TargetFormat \in DOMAIN ChannelLimit)
    => (RaisedChannelLimit <=> ChannelCount > ChannelLimit[TargetFormat])

\* C12, amended: when the bit depth is one write accepts for the target
\* format, write raises a RuntimeError naming the format's maximum exactly
\* when the channel count exceeds the limit, and every count up to the limit
\* passes; with a rejected bit depth the error is the one of the bit depth.
C12_ChannelLimitAfterBitDepth ==
    (WriteDone /\ TargetFormat \in DOMAIN ChannelLimit)
    => /\ BitDepthAccepted
          => /\ RaisedChannelLimit <=> ChannelCount > ChannelLimit[TargetFormat]
             /\ ChannelCount <= ChannelLimit[TargetFormat]
                => w_result.error = NoError
       /\ ~BitDepthAccepted => RaisedBitDepth

\* a one-dimensional signal of three samples passes the check of mp3
C12_Witness ==
    /\ WriteDone
    /\ TargetFormat = "mp3"
    /\ Len(w_call.shape) = 1 /\ w_call.shape[1] > ChannelLimit["mp3"]
    /\ w_result.error = NoError

\* C13: for a wav or flac target write raises a RuntimeError listing the
\* allowed bit depths exactly when bit_depth is not one of them (8, 16, 24,
\* 32 for wav; 8, 16, 24 for flac), and then writes nothing; an accepted
\* bit depth is the one the written file has.
C13_UnsupportedBitDepthRejected ==
    (WriteDone /\ TargetFormat \in DOMAIN AllowedBitDepths)
    => /\ RaisedBitDepth
          <=> w_call.bit_depth \notin AllowedBitDepths[TargetFormat]
       /\ w_result.error.about = "bit_depth" => RaisedBitDepth /\ fs = w_fs0
       /\ w_result.error = NoError
          => precision_mapping(TargetFormat)[fs[safe_path(w_call.file)].subtype]
                = w_call.bit_depth

\* a bit depth of 32 is rejected for flac
C13_Witness ==
    /\ WriteDone
    /\ TargetFormat = "flac"
    /\ w_call.bit_depth = 32
    /\ RaisedBitDepth

\* C14: when write rejects a bit depth or a channel count, no file has been
\* touched: the target is neither created nor modified.
C14_RejectedBeforeIO ==
    (WriteDone /\ w_result.error.about \in {"bit_depth", "channels"})
    => /\ w_io = {}
       /\ fs = w_fs0

\* a write onto an existing file that fails both checks
C14_Witness ==
    /\ WriteDone
    /\ w_fs0[safe_path(w_call.file)] # NoFile
    /\ ~BitDepthAccepted
    /\ ChannelCount > ChannelLimit[TargetFormat]
    /\ w_result.error # NoError
    /\ fs = w_fs0

\* ------------------------------------------------------------- properties of bit_depth()
\* bit_depth() has returned or raised
ProbeDone == w_pc = "probed" /\ w_call.op = "bit_depth"
ProbedPath == safe_path(w_call.file)
\* the call before was a write() / convert_to_wav() that succeeded and
\* wrote the file now probed
ProbedWasWritten ==
    /\ w_prev # <<>>
    /\ w_prev.result.error = NoError
    /\ w_prev.call.op = "write"
    /\ safe_path(w_prev.call.file) = ProbedPath
ProbedWasConverted ==
    /\ w_prev # <<>>
    /\ w_prev.result.error = NoError
    /\ w_prev.call.op = "convert_to_wav"
    /\ w_prev.result.value = ProbedPath

\* C15: bit_depth() of a wav or flac file written with bit_depth=b returns
\* b, and so does bit_depth() of the wav file convert_to_wav(...,
\* bit_depth=b) produced.
C15_BitDepthRoundTrip ==
    ProbeDone
    => /\ (ProbedWasWritten /\ file_extension(ProbedPath) \in {"wav", "flac"})
          => /\ w_result.error = NoError
             /\ w_result.value = w_prev.call.bit_depth
       /\ (ProbedWasConverted /\ file_extension(ProbedPath) = "wav")
          => /\ w_result.error = NoError
             /\ w_result.value = w_prev.call.bit_depth

\* a flac file was converted to wav with bit_depth=8 and probed
C15_Witness ==
    /\ ProbeDone
    /\ ProbedWasConverted
    /\ file_extension(safe_path(w_prev.call.file)) = "flac"
    /\ file_extension(ProbedPath) = "wav"
    /\ w_prev.call.bit_depth = 8
    /\ w_result.value = 8

\* C16: bit_depth() is None for every mp3/ogg file and an integer for every
\* wav/flac file that soundfile can open, whatever subtype it reports.
C16_BitDepthByFormat ==
    (ProbeDone /\ fs[ProbedPath] # NoFile)
    => /\ file_extension(ProbedPath) \in {"mp3", "ogg"}
          => (w_result.error = NoError /\ w_result.value = 0)
       /\ file_extension(ProbedPath) \in {"wav", "flac"}
          => (w_result.error = NoError /\ w_result.value > 0)

\* ------------------------------------------------------------- properties of convert_to_wav()
ConvertDone == w_pc = "done" /\ w_call.op = "convert_to_wav"
\* the resolved paths: absolute, the outfile by default the infile with its
\* extension replaced by wav
ResolvedInfile == [abs |-> TRUE, ext |-> w_call.file.ext]
ResolvedOutfile ==
    [abs |-> TRUE,
     ext |-> IF w_call.outfile = NoOutfile THEN "wav" ELSE w_call.outfile.ext]

\* C17: convert_to_wav raises a RuntimeError before reading or writing any
\* file whenever the resolved outfile equals the resolved infile and
\* overwrite is false; with overwrite true it goes on to read the infile,
\* and on success it returns the absolute outfile path.
C17_OverwriteGuard ==
    ConvertDone
    => /\ (ResolvedOutfile = ResolvedInfile /\ ~w_call.overwrite)
          => /\ w_result.error = Err("RuntimeError", "overwritten", {})
             /\ w_io = {}
             /\ fs = w_fs0
       /\ (ResolvedOutfile = ResolvedInfile /\ w_call.overwrite)
          => /\ w_result.error.about # "overwritten"
             /\ <<"read", ResolvedInfile>> \in w_io
       /\ w_result.error = NoError
          => /\ w_result.value = ResolvedOutfile
             /\ fs[ResolvedOutfile] # NoFile

\* an existing wav file given by its relative path, converted without an
\* outfile and without overwrite
C17_Witness ==
    /\ ConvertDone
    /\ w_call.file = [abs |-> FALSE, ext |-> "wav"]
    /\ w_call.outfile = NoOutfile
    /\ ~w_call.overwrite
    /\ w_fs0[ResolvedInfile] # NoFile
    /\ w_result.error.about = "overwritten"

\* ------------------------------------------------------------- metadata and the external tools
\* The world of a call: the binaries that are installed, and the file: its
\* extension, whether it is a readable audio file ("ok"), does not exist
\* ("missing") or holds no audio data ("broken"), and what the tools report
\* for it:
\*   sox_reads    sox and soxi know the format of the readable file
\*   original     mediainfo reports Channel(s)_Original for it
\*   header       mediainfo reports a duration for it
\*   video        mediainfo reports a video stream for it
\*   unreadable   what mediainfo does with a missing or broken file: it
\*                prints nothing ("empty") or exits non-zero
\*   soxi_out     what soxi prints for a file it reads: the value, nothing,
\*                or a first word that is no number ("garbage")
\*   mediainfo_out  what mediainfo prints for a property the file has: the
\*                value, or a first word that is no number
\*   tmp_decodes  soundfile can read the temporary WAV file written by the
\*                transcoder
\*   audio        the samples per channel and the sampling rate of the file
Binaries == {"sox", "soxi", "ffmpeg", "mediainfo"}
\* recordings of 0, 1000 and 1001 samples at 8000 Hz
Recordings == {[frames |-> n, rate |-> 8000] : n \in {0, 1000, 1001}}
Worlds ==
    [bins : SUBSET Binaries, ext : {"mp4", "wav"}, state : {"ok"},
     sox_reads : BOOLEAN, original : BOOLEAN, header : BOOLEAN,
     video : BOOLEAN, unreadable : {"empty"},
     soxi_out : {"value", "empty", "garbage"},
     mediainfo_out : {"value", "garbage"},
     tmp_decodes : BOOLEAN, audio : Recordings]
    \cup [bins : SUBSET Binaries, ext : {"mp4", "wav"},
          state : {"missing", "broken"}, sox_reads : {FALSE},
          original : {FALSE}, header : {FALSE}, video : {FALSE},
          unreadable : {"empty", "CalledProcessError"},
          soxi_out : {"value"}, mediainfo_out : {"value"},
          tmp_decodes : {FALSE}, audio : {[frames |-> 0, rate |-> 8000]}]

\* a tool that was run and how the run ended: "value" (it printed a value),
\* "empty" (it printed nothing), "garbage" (it printed something that is no
\* number), "CalledProcessError" (non-zero exit),
\* "FileNotFoundError" (no such binary), "error" (soundfile raised)
Ran(tool, outcome) == [tool |-> tool, outcome |-> outcome]
\* What a function returned or raised, the tools it ran, and what happened
\* to its temporary directories ("created", "removed").  A sample count, a
\* rate and a number of channels are integers, a duration in seconds is a
\* fraction <<samples, rate>>, and NoValue stands for any other value.
NoValue == 0 - 1
Outcome(err, value, tools) ==
    [error |-> err, value |-> value, tools |-> tools, temp |-> <<>>]

\* utils.binary_missing_error, utils.broken_file_error
binary_missing_error(binary) == Err("FileNotFoundError", "binary", {binary})
broken_file_error == Err("RuntimeError", "opening", {})
\* int(...) or float(...) of an output that is no number
ValueError == Err("ValueError", "literal", {})
\* the output of a tool is no number
NoNumber(out) == out \in {"empty", "garbage"}

Returned(value, tools) == Outcome(NoError, value, tools)
Raised(err, tools) == Outcome(err, NoValue, tools)

\* _soundfile_supported(file_like, file_ext) of a path
_soundfile_supported(w) == w.ext \in SNDFORMATS

\* soundfile.info(file), soundfile.read(file) giving the value, or the error
\* of soundfile for a file it cannot open
soundfile_call(w, function, value) ==
    IF w.state = "ok" THEN Returned(value, <<Ran(function, "value")>>)
    ELSE Raised(broken_file_error, <<Ran(function, "error")>>)

\* utils.run of a soxi command
run_soxi(w) ==
    IF "soxi" \notin w.bins THEN "FileNotFoundError"
    ELSE IF w.state = "ok" /\ w.sox_reads THEN w.soxi_out
    ELSE "CalledProcessError"

\* utils.run of a mediainfo command with the given --Inform query
run_mediainfo(w, query) ==
    IF "mediainfo" \notin w.bins THEN "FileNotFoundError"
    ELSE IF w.state # "ok" THEN w.unreadable
    ELSE CASE query = "Channel(s)_Original" ->
                IF w.original THEN w.mediainfo_out ELSE "empty"
           [] query = "Duration" -> IF w.header THEN w.mediainfo_out ELSE "empty"
           [] query = "Video" -> IF w.video THEN "value" ELSE "empty"
           [] OTHER -> w.mediainfo_out

\* variant: a missing mediainfo is handled like an empty answer
info_channels_retries(w) ==
    IF _soundfile_supported(w) THEN soundfile_call(w, "soundfile.info", 1)
    ELSE LET s == run_soxi(w)
             m1 == run_mediainfo(w, "Channel(s)_Original")
             m2 == run_mediainfo(w, "Channel(s)")
         IN  IF s = "value" THEN Returned(1, <<Ran("soxi", s)>>)
             ELSE IF NoNumber(s) THEN Raised(ValueError, <<Ran("soxi", s)>>)
             ELSE IF m1 = "value"
             THEN Returned(1, <<Ran("soxi", s), Ran("mediainfo", m1)>>)
             ELSE IF m2 = "value"
             THEN Returned(1, <<Ran("soxi", s), Ran("mediainfo", m1),
                                Ran("mediainfo", m2)>>)
             ELSE IF m2 = "FileNotFoundError"
             THEN Raised(binary_missing_error("mediainfo"),
                         <<Ran("soxi", s), Ran("mediainfo", m1),
                           Ran("mediainfo", m2)>>)
             ELSE Raised(broken_file_error,
                         <<Ran("soxi", s), Ran("mediainfo", m1),
                           Ran("mediainfo", m2)>>)

\* info.channels(file): soundfile, or soxi, then mediainfo with the query
\* for the original channels, then mediainfo with the query for the
\* channels; the files of the model have one channel
info_channels(w) ==
    IF _soundfile_supported(w) THEN soundfile_call(w, "soundfile.info", 1)
    ELSE LET s == run_soxi(w)
             m1 == run_mediainfo(w, "Channel(s)_Original")
             m2 == run_mediainfo(w, "Channel(s)")
         IN  IF s = "value" THEN Returned(1, <<Ran("soxi", s)>>)
             ELSE IF NoNumber(s) THEN Raised(ValueError, <<Ran("soxi", s)>>)
             ELSE IF m1 = "value"
             THEN Returned(1, <<Ran("soxi", s), Ran("mediainfo", m1)>>)
             ELSE IF m1 = "FileNotFoundError"
             THEN Raised(binary_missing_error("mediainfo"),
                         <<Ran("soxi", s), Ran("mediainfo", m1)>>)
             ELSE IF m2 = "value"
             THEN Returned(1, <<Ran("soxi", s), Ran("mediainfo", m1),
                                Ran("mediainfo", m2)>>)
             ELSE IF m2 = "FileNotFoundError"
             THEN Raised(Err("FileNotFoundError", "mediainfo", {}),
                         <<Ran("soxi", s), Ran("mediainfo", m1),
                           Ran("mediainfo", m2)>>)
             ELSE Raised(broken_file_error,
                         <<Ran("soxi", s), Ran("mediainfo", m1),
                           Ran("mediainfo", m2)>>)

\* variant: a missing mediainfo is reported as a broken file
info_sampling_rate_missing_as_broken(w) ==
    IF _soundfile_supported(w)
    THEN soundfile_call(w, "soundfile.info", w.audio.rate)
    ELSE LET s == run_soxi(w)
             m == run_mediainfo(w, "SamplingRate")
         IN  IF s = "value" THEN Returned(w.audio.rate, <<Ran("soxi", s)>>)
             ELSE IF NoNumber(s) THEN Raised(ValueError, <<Ran("soxi", s)>>)
             ELSE IF m = "value"
             THEN Returned(w.audio.rate, <<Ran("soxi", s), Ran("mediainfo", m)>>)
             ELSE IF m = "garbage"
             THEN Raised(ValueError, <<Ran("soxi", s), Ran("mediainfo", m)>>)
             ELSE Raised(broken_file_error,
                         <<Ran("soxi", s), Ran("mediainfo", m)>>)

\* info.sampling_rate(file): soundfile, or soxi, then mediainfo; an empty
\* answer of mediainfo is turned into a CalledProcessError
info_sampling_rate(w) ==
    IF _soundfile_supported(w)
    THEN soundfile_call(w, "soundfile.info", w.audio.rate)
    ELSE LET s == run_soxi(w)
             m == run_mediainfo(w, "SamplingRate")
         IN  IF s = "value" THEN Returned(w.audio.rate, <<Ran("soxi", s)>>)
             ELSE IF NoNumber(s) THEN Raised(ValueError, <<Ran("soxi", s)>>)
             ELSE IF m = "value"
             THEN Returned(w.audio.rate, <<Ran("soxi", s), Ran("mediainfo", m)>>)
             ELSE IF m = "garbage"
             THEN Raised(ValueError, <<Ran("soxi", s), Ran("mediainfo", m)>>)
             ELSE IF m = "FileNotFoundError"
             THEN Raised(binary_missing_error("mediainfo"),
                         <<Ran("soxi", s), Ran("mediainfo", m)>>)
             ELSE Raised(broken_file_error,
                         <<Ran("soxi", s), Ran("mediainfo", m)>>)

\* variant: the FileNotFoundError of the run is not caught
info_has_video_uncaught(w) ==
    IF w.ext \in SNDFORMATS THEN Returned(NoValue, <<>>)
    ELSE IF w.state = "missing"
    THEN Raised(Err("RuntimeError", "exist", {}), <<>>)
    ELSE LET m == run_mediainfo(w, "Video")
         IN  IF m \in {"FileNotFoundError", "CalledProcessError"}
             THEN Raised(Err(m, "run", {}), <<Ran("mediainfo", m)>>)
             ELSE Returned(NoValue, <<Ran("mediainfo", m)>>)

\* info.has_video(file): False for the formats of soundfile; else the file
\* has to exist and mediainfo is asked; a CalledProcessError is not caught
info_has_video(w) ==
    IF w.ext \in SNDFORMATS THEN Returned(NoValue, <<>>)
    ELSE IF w.state = "missing"
    THEN Raised(Err("RuntimeError", "exist", {}), <<>>)
    ELSE LET m == run_mediainfo(w, "Video")
         IN  IF m = "FileNotFoundError"
             THEN Raised(binary_missing_error("mediainfo"),
                         <<Ran("mediainfo", m)>>)
             ELSE IF m = "CalledProcessError"
             THEN Raised(Err(m, "run", {}), <<Ran("mediainfo", m)>>)
             ELSE Returned(NoValue, <<Ran("mediainfo", m)>>)

\* utils.run of sox and of ffmpeg on the file
run_sox_outcome(w) ==
    IF "sox" \notin w.bins THEN "FileNotFoundError"
    ELSE IF w.state = "ok" /\ w.sox_reads THEN "value"
    ELSE "CalledProcessError"
run_ffmpeg_outcome(w) ==
    IF "ffmpeg" \notin w.bins THEN "FileNotFoundError"
    ELSE IF w.state = "ok" THEN "value"
    ELSE "CalledProcessError"

\* convert(infile, outfile, offset, duration, sampling_rate): sox, then
\* ffmpeg; a missing ffmpeg is the missing-binary error, a failing ffmpeg
\* the broken-file error; the value is the number of samples of outfile
convert_outcome(w) ==
    LET s == run_sox_outcome(w)
        f == run_ffmpeg_outcome(w)
    IN  IF s = "value" THEN Returned(w.audio.frames, <<Ran("sox", s)>>)
        ELSE IF f = "value"
        THEN Returned(w.audio.frames, <<Ran("sox", s), Ran("ffmpeg", f)>>)
        ELSE IF f = "FileNotFoundError"
        THEN Raised(binary_missing_error("ffmpeg"),
                    <<Ran("sox", s), Ran("ffmpeg", f)>>)
        ELSE Raised(broken_file_error, <<Ran("sox", s), Ran("ffmpeg", f)>>)

\* b after a, unless a raised
Then(a, b) ==
    IF a.error # NoError THEN a
    ELSE [error |-> b.error, value |-> b.value, tools |-> a.tools \o b.tools,
          temp |-> a.temp \o b.temp]
Skipped == Returned(NoValue, <<>>)

\* variant: the directory is removed at the end of the body only
TemporaryDirectory_kept_on_error(body) ==
    [body EXCEPT !.temp = <<"created">> \o body.temp
                          \o (IF body.error = NoError THEN <<"removed">>
                              ELSE <<>>)]

\* with tempfile.TemporaryDirectory(prefix="audiofile") as tmpdir: body
TemporaryDirectory(body) ==
    [body EXCEPT !.temp = <<"created">> \o body.temp \o <<"removed">>]

\* The pairs of Recordings for which frames / rate * rate, computed in
\* double precision, is below frames: 1001 / 8000 * 8000 is
\* 1000.9999999999999
DoubleProductBelow == {[frames |-> 1001, rate |-> 8000]}

\* samples_as_int(file): int(info.duration * info.samplerate), where
\* info.duration is frames / samplerate as a float
samples_as_int(frames, rate) ==
    IF [frames |-> frames, rate |-> rate] \in DoubleProductBelow
    THEN frames - 1 ELSE frames

\* soundfile.read(tmpfile) of the file the transcoder wrote
soundfile_read_tmpfile(w, frames) ==
    IF w.tmp_decodes
    THEN Returned(frames, <<Ran("soundfile.read", "value")>>)
    ELSE Raised(broken_file_error, <<Ran("soundfile.read", "error")>>)

\* The body of read(file, duration, offset), by what the arguments ask for:
\* the sampling rate for parsing them (needs_rate), the duration of the file
\* for normalizing them (needs_norm), and the return for a duration of 0
\* samples (zero); signal_duration is the outcome of info.duration(file),
\* which the body asks for if needs_norm.  The value is the number of
\* samples per channel of the signal; it is NoValue for a part of the file.
read_body(w, needs_rate, needs_norm, zero, signal_duration) ==
    LET parsed == IF needs_rate THEN info_sampling_rate(w) ELSE Skipped
        normalized ==
            Then(parsed, IF needs_norm THEN signal_duration ELSE Skipped)
        count == IF needs_rate THEN NoValue ELSE w.audio.frames
        decoded ==
            IF zero THEN [info_channels(w) EXCEPT !.value = 0]
            ELSE IF _soundfile_supported(w)
            THEN soundfile_call(w, "soundfile.read", count)
            ELSE TemporaryDirectory(
                    Then(Then(IF ~needs_rate THEN info_sampling_rate(w)
                              ELSE Skipped,
                              convert_outcome(w)),
                         soundfile_read_tmpfile(w, count)))
    IN  Then(normalized, decoded)

\* convert_to_wav(infile, outfile) with an outfile that is not the infile:
\* read() of the whole file, which looks up no duration, then write(); the
\* value is the number of samples of outfile
io_convert_to_wav(w) ==
    LET r == read_body(w, FALSE, FALSE, FALSE, Skipped)
    IN  Then(r, Returned(r.value, <<Ran("soundfile.write", "value")>>))

\* info.samples(file): soundfile, or convert_to_wav to a temporary file that
\* soundfile probes
info_samples(w) ==
    IF _soundfile_supported(w)
    THEN soundfile_call(w, "soundfile.info",
                        samples_as_int(w.audio.frames, w.audio.rate))
    ELSE LET c == io_convert_to_wav(w)
         IN  TemporaryDirectory(
                Then(c, Returned(samples_as_int(c.value, w.audio.rate),
                                 <<Ran("soundfile.info", "value")>>)))

\* info.duration(file, sloppy): soundfile; or, if sloppy, soxi, then
\* mediainfo; without a duration from them (none, or one of 0),
\* samples(file) / sampling_rate(file)
info_duration(w, sloppy) ==
    IF _soundfile_supported(w)
    THEN soundfile_call(w, "soundfile.info", <<w.audio.frames, w.audio.rate>>)
    ELSE LET s == run_soxi(w)
             m == run_mediainfo(w, "Duration")
             header == <<w.audio.frames, w.audio.rate>>
             n == info_samples(w)
             r == info_sampling_rate(w)
             exact == Then(n, [r EXCEPT !.value = <<n.value, r.value>>])
         IN  IF ~sloppy THEN exact
             ELSE IF s = "value"
             THEN IF w.audio.frames # 0
                  THEN Returned(header, <<Ran("soxi", s)>>)
                  ELSE Then(Returned(header, <<Ran("soxi", s)>>), exact)
             ELSE IF NoNumber(s) THEN Raised(ValueError, <<Ran("soxi", s)>>)
             ELSE IF m = "value"
             THEN IF w.audio.frames # 0
                  THEN Returned(header, <<Ran("soxi", s), Ran("mediainfo", m)>>)
                  ELSE Then(Returned(header, <<Ran("soxi", s),
                                               Ran("mediainfo", m)>>), exact)
             ELSE IF m = "garbage"
             THEN Raised(ValueError, <<Ran("soxi", s), Ran("mediainfo", m)>>)
             ELSE IF m = "FileNotFoundError"
             THEN Raised(binary_missing_error("mediainfo"),
                         <<Ran("soxi", s), Ran("mediainfo", m)>>)
             ELSE IF m = "CalledProcessError"
             THEN Raised(broken_file_error,
                         <<Ran("soxi", s), Ran("mediainfo", m)>>)
             ELSE Then(Returned(header, <<Ran("soxi", s), Ran("mediainfo", m)>>),
                       exact)

\* read(file, duration, offset)
io_read(w, needs_rate, needs_norm, zero) ==
    read_body(w, needs_rate, needs_norm, zero, info_duration(w, FALSE))

\* ------------------------------------------------------------- the calls of SpecInfo
\* One world, and one call after the other in it.
InitInfo ==
    /\ ReadOff /\ NormOff /\ WriteOff
    /\ world \in Worlds
    /\ i_pc = "idle"
    /\ i_call = <<>>
    /\ i_result = <<>>

InfoCall(op, sloppy, needs_rate, needs_norm, zero) ==
    [op |-> op, sloppy |-> sloppy, needs_rate |-> needs_rate,
     needs_norm |-> needs_norm, zero |-> zero]

i_channels ==
    /\ i_pc = "idle"
    /\ i_pc' = "done"
    /\ i_call' = InfoCall("channels", FALSE, FALSE, FALSE, FALSE)
    /\ i_result' = info_channels(world)
    /\ UNCHANGED <<world, readVars, normVars, writeVars>>

i_sampling_rate ==
    /\ i_pc = "idle"
    /\ i_pc' = "done"
    /\ i_call' = InfoCall("sampling_rate", FALSE, FALSE, FALSE, FALSE)
    /\ i_result' = info_sampling_rate(world)
    /\ UNCHANGED <<world, readVars, normVars, writeVars>>

i_duration(sloppy) ==
    /\ i_pc = "idle"
    /\ i_pc' = "done"
    /\ i_call' = InfoCall("duration", sloppy, FALSE, FALSE, FALSE)
    /\ i_result' = info_duration(world, sloppy)
    /\ UNCHANGED <<world, readVars, normVars, writeVars>>

i_samples ==
    /\ i_pc = "idle"
    /\ i_pc' = "done"
    /\ i_call' = InfoCall("samples", FALSE, FALSE, FALSE, FALSE)
    /\ i_result' = info_samples(world)
    /\ UNCHANGED <<world, readVars, normVars, writeVars>>

i_has_video ==
    /\ i_pc = "idle"
    /\ i_pc' = "done"
    /\ i_call' = InfoCall("has_video", FALSE, FALSE, FALSE, FALSE)
    /\ i_result' = info_has_video(world)
    /\ UNCHANGED <<world, readVars, normVars, writeVars>>

\* read(): arguments that need normalizing, or a duration of 0, are not None,
\* so the sampling rate is needed to parse them
i_read(needs_rate, needs_norm, zero) ==
    /\ (needs_norm \/ zero) => needs_rate
    /\ i_pc = "idle"
    /\ i_pc' = "done"
    /\ i_call' = InfoCall("read", FALSE, needs_rate, needs_norm, zero)
    /\ i_result' = io_read(world, needs_rate, needs_norm, zero)
    /\ UNCHANGED <<world, readVars, normVars, writeVars>>

i_convert_to_wav ==
    /\ i_pc = "idle"
    /\ i_pc' = "done"
    /\ i_call' = InfoCall("convert_to_wav", FALSE, FALSE, FALSE, FALSE)
    /\ i_result' = io_convert_to_wav(world)
    /\ UNCHANGED <<world, readVars, normVars, writeVars>>

i_return ==
    /\ i_pc = "done"
    /\ i_pc' = "idle"
    /\ i_call' = <<>>
    /\ i_result' = <<>>
    /\ UNCHANGED <<world, readVars, normVars, writeVars>>

NextInfo ==
    \/ i_channels
    \/ i_sampling_rate
    \/ \E sloppy \in BOOLEAN : i_duration(sloppy)
    \/ i_samples
    \/ i_has_video
    \/ \E needs_rate \in BOOLEAN, needs_norm \in BOOLEAN, zero \in BOOLEAN :
            i_read(needs_rate, needs_norm, zero)
    \/ i_convert_to_wav
    \/ i_return

SpecInfo == InitInfo /\ [][NextInfo]_vars

\* ------------------------------------------------------------- properties of SpecInfo
InfoDone == i_pc = "done"
NonNative == world.ext \notin SNDFORMATS
NoBinaries == world.bins = {}
AllBinaries == world.bins = Binaries
\* the three failures of one file with a non-native extension
MissingBinaryCase == NonNative /\ NoBinaries /\ world.state = "ok"
MissingFileCase == NonNative /\ AllBinaries /\ world.state = "missing"
CorruptFileCase == NonNative /\ AllBinaries /\ world.state = "broken"
FailureCase == MissingBinaryCase \/ MissingFileCase \/ CorruptFileCase
ProbingOps == {"channels", "sampling_rate", "duration", "read"}
IsBinaryMissing(e) == e.type = "FileNotFoundError" /\ e.about = "binary"

\* C18 as stated: for channels, sampling_rate, duration and read of a file
\* with a non-native extension, a missing binary, a missing file and a
\* corrupt file give three error kinds, none of which is the kind of another
\* of the three.
C18_ThreeErrorKinds ==
    (InfoDone /\ i_call.op \in ProbingOps /\ FailureCase) =>
        /\ i_result.error # NoError
        /\ MissingBinaryCase => IsBinaryMissing(i_result.error)
        /\ MissingFileCase =>
            /\ ~IsBinaryMissing(i_result.error)
            /\ i_result.error # broken_file_error
        /\ CorruptFileCase => i_result.error = broken_file_error

\* C18 amended: for channels, sampling_rate, duration and read of a file
\* with a non-native extension there are two error kinds: without any
\* binary a readable file gives the FileNotFoundError that names a binary,
\* and with every binary installed a missing file and a corrupt file both
\* give the RuntimeError "Error opening ...", which is never the error of
\* the missing binary.
C18_TwoErrorKinds ==
    (InfoDone /\ i_call.op \in ProbingOps /\ FailureCase) =>
        /\ MissingBinaryCase =>
            /\ IsBinaryMissing(i_result.error)
            /\ i_result.error # broken_file_error
        /\ (MissingFileCase \/ CorruptFileCase) =>
            /\ i_result.error = broken_file_error
            /\ ~IsBinaryMissing(i_result.error)

\* C18 witness: read() of a missing file with every binary installed raised
\* the broken-file error
C18_Witness ==
    /\ InfoDone /\ i_call.op = "read" /\ MissingFileCase
    /\ i_result.error = broken_file_error
    /\ Len(i_result.tools) > 0

ChainOps == {"channels", "sampling_rate"}
RanMissing(i) == i_result.tools[i].outcome = "FileNotFoundError"
LastTool(i) == i = Len(i_result.tools)

\* C19 as stated: in channels and sampling_rate, once a probe tool's binary
\* is found missing no further tool is invoked in that call.
C19_NoFallbackAfterMissing ==
    (InfoDone /\ i_call.op \in ChainOps /\ NonNative) =>
        \A i \in 1..Len(i_result.tools) : RanMissing(i) => LastTool(i)

\* C19 amended: in channels and sampling_rate, a missing soxi is followed by
\* mediainfo, and once mediainfo is found missing no further tool is invoked
\* and the call raises the FileNotFoundError that names mediainfo.
C19_NoFallbackAfterMissingMediainfo ==
    (InfoDone /\ i_call.op \in ChainOps /\ NonNative) =>
        \A i \in 1..Len(i_result.tools) : RanMissing(i) =>
            IF i_result.tools[i].tool = "soxi"
            THEN /\ ~LastTool(i)
                 /\ i_result.tools[i + 1].tool = "mediainfo"
            ELSE /\ i_result.tools[i].tool = "mediainfo"
                 /\ LastTool(i)
                 /\ i_result.error = binary_missing_error("mediainfo")

\* C19 witness: channels() of a file that soxi is installed for but cannot
\* read, without mediainfo: soxi, then mediainfo, then the error
C19_Witness ==
    /\ InfoDone /\ i_call.op = "channels" /\ NonNative
    /\ "soxi" \in world.bins /\ "mediainfo" \notin world.bins
    /\ Len(i_result.tools) = 2
    /\ i_result.tools[1] = Ran("soxi", "CalledProcessError")
    /\ i_result.tools[2] = Ran("mediainfo", "FileNotFoundError")
    /\ i_result.error = binary_missing_error("mediainfo")

\* C20: without any external binary, each of read, convert_to_wav, channels,
\* sampling_rate, samples, duration (sloppy or not) and has_video of an
\* existing file with a non-native extension raises the FileNotFoundError
\* that names mediainfo.
C20_NoBinariesNamesMediainfo ==
    (InfoDone /\ NonNative /\ NoBinaries /\ world.state # "missing") =>
        i_result.error = binary_missing_error("mediainfo")

\* C20 witness: the exact duration() of a readable file without any binary
\* raised the error that names mediainfo
C20_Witness ==
    /\ InfoDone /\ NonNative /\ NoBinaries /\ world.state = "ok"
    /\ i_call.op = "duration" /\ ~i_call.sloppy
    /\ i_result.error = binary_missing_error("mediainfo")
    /\ i_result.tools[Len(i_result.tools)] = Ran("mediainfo", "FileNotFoundError")

MetadataOps == {"channels", "sampling_rate", "duration"}

\* C21: for a file with a non-native extension, whatever the probe tools
\* exit with or print, channels, sampling_rate and duration (sloppy or not)
\* return a value or raise the missing-binary error or the broken-file
\* RuntimeError, and no other error.
C21_OnlyTaxonomyErrors ==
    (InfoDone /\ NonNative /\ i_call.op \in MetadataOps) =>
        \/ i_result.error = NoError
        \/ IsBinaryMissing(i_result.error)
        \/ i_result.error = broken_file_error

InfoReturned == InfoDone /\ i_result.error = NoError

\* C22: for a file with a non-native extension, the exact duration(file) is
\* samples(file) / sampling_rate(file), and samples(file) is the number of
\* samples per channel that read(file) returns.
C22_DurationAndSamplesConsistent ==
    (InfoReturned /\ NonNative) =>
        /\ (i_call.op = "duration" /\ ~i_call.sloppy) =>
                i_result.value = <<info_samples(world).value,
                                   info_sampling_rate(world).value>>
        /\ i_call.op = "samples" =>
                i_result.value = io_read(world, FALSE, FALSE, FALSE).value

TempOps == {"read", "samples"}
\* the temporary directories that exist after the events
RECURSIVE Existing(_)
Existing(events) ==
    IF events = <<>> THEN 0
    ELSE Existing(SubSeq(events, 1, Len(events) - 1))
         + (IF events[Len(events)] = "created" THEN 1 ELSE 0 - 1)

\* C23: when read or samples of a file with a non-native extension has
\* returned or raised, none of the temporary directories it created exists
\* any more, whichever step failed.
C23_TemporaryDirectoriesRemoved ==
    (InfoDone /\ NonNative /\ i_call.op \in TempOps) =>
        Existing(i_result.temp) = 0

\* C23 witness: read() created a temporary directory, the transcoder wrote
\* the temporary file, soundfile failed to decode it, and the directory is
\* gone
C23_Witness ==
    /\ InfoDone /\ NonNative /\ i_call.op = "read"
    /\ i_result.error = broken_file_error
    /\ i_result.tools[Len(i_result.tools)] = Ran("soundfile.read", "error")
    /\ i_result.temp = <<"created", "removed">>

\* ------------------------------------------------------------- lookups of read()
\* how often the call has been made since read() was entered
Fetches(call) == Cardinality({i \in 1..Len(calls) : calls[i] = call})
\* the arguments as parsed
ParsedOffset == _parse_time_value(arg_offset, get_sampling_rate(file))
ParsedDuration == _parse_time_value(arg_duration, get_sampling_rate(file))
NegativeOrInfinite(v) == ~IsNone(v) /\ (Lt0(v) \/ isinf(v))
Normalizes == NegativeOrInfinite(ParsedOffset) \/ NegativeOrInfinite(ParsedDuration)
AfterNormalization == pc \in {"to_samples", "decode", "done"}

\* C24 as stated: within one read call the sampling rate of the file is
\* fetched at most once, the fetches of the duration lookup included.
C24_SamplingRateFetchedOnce == Fetches("get_sampling_rate") <= 1

\* C24 amended: within one read call the sampling rate is fetched at most
\* once if the file is natively decodable or the duration of the file is
\* not looked up; when it is looked up for a file that is not natively
\* decodable, read has fetched the sampling rate once itself and the lookup
\* fetches it two more times.
C24_SamplingRateFetchedOnceOrThrice ==
    IF ~file.native /\ Fetches("get_duration") > 0
    THEN Fetches("get_sampling_rate") = 3
    ELSE Fetches("get_sampling_rate") <= 1

\* C24 witness: a read of a file that is not natively decodable with a
\* negative offset has returned
C24_Witness ==
    /\ pc = "done" /\ error = "none" /\ ~file.native
    /\ IsSeconds(arg_offset) /\ arg_offset.n < 0
    /\ Fetches("get_duration") = 1
    /\ Fetches("get_sampling_rate") = 3

\* C25: read looks up the duration of the file exactly once if, after
\* parsing, the offset or the duration is negative or infinite, and never
\* otherwise.
C25_DurationLookedUpIffNeeded ==
    Fetches("get_duration") =
        IF AfterNormalization /\ Normalizes THEN 1 ELSE 0

\* C25 witness: a read with an absent offset and an infinite duration has
\* looked the duration up
C25_Witness ==
    /\ pc = "done"
    /\ IsAbsent(arg_offset) /\ IsPInf(arg_duration)
    /\ Fetches("get_duration") = 1

\* ------------------------------------------------------------- rounding
NonNegativeSeconds(a) == IsSeconds(a) /\ a.n >= 0
\* twice the distance, in ticks, of n samples from the value a
TwiceDistance(n, a) ==
    IF n * TicksPerSample >= a.n THEN 2 * (n * TicksPerSample - a.n)
    ELSE 2 * (a.n - n * TicksPerSample)
\* the number of samples nearest to the non-negative value a, the even one
\* of two that are equally near
NearestEven(a) ==
    CHOOSE n \in 0..(a.n \div TicksPerSample + 1) :
        /\ TwiceDistance(n, a) <= TicksPerSample
        /\ TwiceDistance(n, a) = TicksPerSample => n % 2 = 0

\* C26: offset and duration in seconds are converted to samples one by one,
\* each by rounding value * sampling_rate to the nearest integer, exact
\* halves going to the even integer, and the samples returned are those of
\* [round(offset * sr), round(offset * sr) + round(duration * sr)) that the
\* file has.
C26_RoundedIndependently ==
    (pc = "done" /\ NonNegativeSeconds(arg_offset)
     /\ NonNegativeSeconds(arg_duration))
    => /\ error = "none"
       /\ signal = Clip(file.signal, NearestEven(arg_offset),
                        NearestEven(arg_offset) + NearestEven(arg_duration))

\* C26 witness: an offset of 1.5 samples with a duration of 1.5 samples has
\* selected the samples 2 and 3
C26_Witness ==
    /\ pc = "done" /\ error = "none"
    /\ IsSeconds(arg_offset) /\ 2 * arg_offset.n = 3 * TicksPerSample
    /\ IsSeconds(arg_duration) /\ 2 * arg_duration.n = 3 * TicksPerSample
    /\ Frames >= 4
    /\ signal = <<file.signal[3], file.signal[4]>>

\* C27: for an absent offset and a finite negative duration d with
\* |d| <= signal duration, read returns the last round(|d| * sr) samples of
\* the signal, exact halves included, for every signal length.
C27_NegativeDurationFromEnd ==
    (/\ pc = "done"
     /\ IsAbsent(arg_offset)
     /\ IsSeconds(arg_duration) /\ arg_duration.n < 0
     /\ 0 - arg_duration.n <= get_duration(file))
    => /\ error = "none"
       /\ signal = Clip(file.signal,
                        Frames - RoundHalfEven(0 - arg_duration.n,
                                               TicksPerSample),
                        Frames)

\* ------------------------------------------------------------- data type
\* C28: the signal read returns has the requested dtype (float32 when not
\* given) on every return path, the zero-duration short-circuit included.
C28_ReturnedDtype ==
    (pc = "done" /\ error = "none") => signal_dtype = dtype

\* ------------------------------------------------------------- the sampling rate is known
\* the local sampling_rate of read() is not None
SamplingRateKnown == sampling_rate # 0
\* a value that is converted between seconds and samples
Converted(v) == ~IsNone(v) /\ Ne0(v)

\* C30: in every read call the sampling rate has been fetched where it is
\* used or returned before the decoder runs: when duration or offset is
\* converted from seconds to samples, when offset or duration is divided
\* by it on the transcoder path, and when the zero-duration short-circuit
\* returns it.
C30_SamplingRateKnownWhereUsed ==
    /\ (pc = "to_samples" /\ (Converted(duration) \/ Converted(offset)))
            => SamplingRateKnown
    /\ (pc = "decode" /\ ~file.native
        /\ (Converted(offset) \/ Converted(duration)))
            => SamplingRateKnown
    /\ ReturnedZeroDuration => SamplingRateKnown

\* C30 witness: a read of a file that is not natively decodable with an
\* offset and no duration is about to divide the offset by the sampling
\* rate
C30_Witness ==
    /\ pc = "decode" /\ ~file.native
    /\ IsAbsent(arg_duration) /\ IsSeconds(arg_offset)
    /\ Converted(offset)
    /\ SamplingRateKnown

\* ------------------------------------------------------------- write(normalize=...)
\* A mono signal is the sequence of its samples, whole numbers of some unit
\* of amplitude.  A sample handed to the encoder is the fraction num / den,
\* or NaN.
Amplitudes == (0 - 2)..2
MaxLength == 3
RECURSIVE SignalsOfLength(_)
SignalsOfLength(n) ==
    IF n = 0 THEN {<<>>}
    ELSE {Append(sig, x) : sig \in SignalsOfLength(n - 1), x \in Amplitudes}
MonoSignals == UNION {SignalsOfLength(n) : n \in 0..MaxLength}

Sample(num, den) == [nan |-> FALSE, num |-> num, den |-> den]
NaNSample == [nan |-> TRUE, num |-> 0, den |-> 1]
Abs(x) == IF x < 0 THEN 0 - x ELSE x
\* np.max(np.abs(signal)) of a signal that is not empty
MaxAbs(sig) ==
    CHOOSE m \in {Abs(sig[i]) : i \in 1..Len(sig)} :
        \A i \in 1..Len(sig) : Abs(sig[i]) <= m
\* signal / np.max(np.abs(signal)): 0 / 0 is NaN
signal_normalized(sig) ==
    [i \in 1..Len(sig) |->
        IF MaxAbs(sig) = 0 THEN NaNSample ELSE Sample(sig[i], MaxAbs(sig))]
signal_as_given(sig) == [i \in 1..Len(sig) |-> Sample(sig[i], 1)]

\* write(file, signal, sampling_rate, bit_depth, normalize) of a mono
\* signal: the checks of write(), the normalization, soundfile.write; data
\* is what soundfile.write is given.  np.max of an empty signal raises a
\* ValueError.
write_signal(files, target, sig, depth, normalize) ==
    LET checks == write(files, target, <<Len(sig)>>, depth)
    IN  IF checks.error # NoError
        THEN [error |-> checks.error, fs |-> files, io |-> {}, data |-> <<>>]
        ELSE IF normalize /\ Len(sig) = 0
        THEN [error |-> Err("ValueError", "zero-size array", {}),
              fs |-> files, io |-> {}, data |-> <<>>]
        ELSE [error |-> NoError, fs |-> checks.fs, io |-> checks.io,
              data |-> IF normalize THEN signal_normalized(sig)
                       ELSE signal_as_given(sig)]

InitNormalize ==
    /\ ReadOff
    /\ NormOff
    /\ InfoOff
    /\ fs = EmptyFileSystem
    /\ w_pc = "idle"
    /\ w_call = <<>>
    /\ w_result = <<>>
    /\ w_io = {}
    /\ w_fs0 = fs
    /\ w_prev = <<>>

\* write(target, signal, sampling_rate, bit_depth=depth,
\* normalize=normalize) is called
w_write_signal(target, sig, depth, normalize) ==
    /\ w_pc = "idle"
    /\ LET r == write_signal(fs, target, sig, depth, normalize)
       IN  /\ fs' = r.fs
           /\ w_io' = r.io
           /\ w_result' = [error |-> r.error, value |-> NoOutfile,
                           data |-> r.data]
    /\ w_call' = [op |-> "write", file |-> target, signal |-> sig,
                  bit_depth |-> depth, normalize |-> normalize]
    /\ w_fs0' = fs
    /\ w_pc' = "done"
    /\ UNCHANGED w_prev
    /\ UNCHANGED <<readVars, normVars, infoVars>>

NextNormalize ==
    \/ w_pc = "idle"
       /\ \E target \in Paths, sig \in MonoSignals, depth \in BitDepths,
             normalize \in BOOLEAN :
             w_write_signal(target, sig, depth, normalize)
    \/ w_return

SpecNormalize == InitNormalize /\ [][NextNormalize]_vars

\* write(normalize=True) of a signal with samples has passed the checks of
\* the bit depth and of the channels
NormalizingWrite ==
    /\ w_pc = "done" /\ w_call.op = "write" /\ w_call.normalize
    /\ Len(w_call.signal) > 0
    /\ write(w_fs0, w_call.file, <<Len(w_call.signal)>>,
             w_call.bit_depth).error = NoError
HandedToEncoder == w_result.data
PeakIsOne ==
    /\ \A i \in 1..Len(HandedToEncoder) :
            Abs(HandedToEncoder[i].num) <= HandedToEncoder[i].den
    /\ \E i \in 1..Len(HandedToEncoder) :
            Abs(HandedToEncoder[i].num) = HandedToEncoder[i].den
AllZero(sig) == \A i \in 1..Len(sig) : sig[i] = 0

\* C29: with normalize=True write hands the encoder a signal whose peak
\* absolute value is exactly 1, and it never divides by zero: an all-zero
\* signal is handed over without an error and without a NaN or infinite
\* sample.
C29_NormalizedPeakIsOne ==
    NormalizingWrite =>
        /\ w_result.error = NoError
        /\ Len(HandedToEncoder) = Len(w_call.signal)
        /\ \A i \in 1..Len(HandedToEncoder) : ~HandedToEncoder[i].nan
        /\ ~AllZero(w_call.signal) => PeakIsOne

====
